---- MODULE Spec2Model ----
(***************************************************************************)
(* State-machine model of the rivicq-protocol repository:                  *)
(*   - RivicQCore.verifyTransferProof   (ui/src/lib/rivicq-oss.ts)         *)
(*   - ShieldedPool.deposit / withdraw  (ui/src/lib/rivicq-enterprise.ts,  *)
(*                                       same logic in both copies)        *)
(*   - MerkleTree.insert / updateTree   (ui/src/lib/rivicq-oss.ts)         *)
(*   - RelayerService, MessageBus       (offchain/src/relayer.ts)          *)
(*   - CrossChainBridge, PolygonBridge  (evm/contracts/ethereum/*.sol)     *)
(* Each subsystem has its own specification (SpecLedger, SpecTree,         *)
(* SpecRelayer, SpecBus, SpecBridge); the variables of the other           *)
(* subsystems stay at their initial values.                                *)
(***************************************************************************)
EXTENDS Integers, Sequences, FiniteSets, TLC

VARIABLES
    \* RivicQCore
    spentNullifiers,   \* Map<string, number>: set of <<nullifier, blockNumber>>
    coreResult,        \* the last verifyTransferProof call and what it returned
    coreVerified,      \* per nullifier: how many calls returned true (saturating)
    \* ShieldedPool
    notes,             \* Map<string, ShieldedNote>, keyed by commitment
    nullifierSet,      \* Set<string>
    commitmentTree,    \* string[]
    poolResult,        \* the last deposit/withdraw call and its outcome
    poolWithdrawn,     \* per nullifier: how many withdrawals succeeded (saturating)
    \* MerkleTree
    depth,             \* fixed at construction
    leaves,            \* string[]
    nodes,             \* Map<number, string[]>: level -> sparse array
    inserting,         \* insert calls suspended at `await MiMC7.hash` in
                       \* updateTree: the microtask queue, oldest first
    insertLog,         \* per insert call, in call order: its outcome
    proofResult,       \* the last value getProof returned or error it threw
    \* RelayerService
    isRunning,
    messageQueue,      \* CrossChainMessage[]
    confirmations,     \* Map<string, RelayConfirmation[]>, in insertion order:
                       \* a sequence of [transferId, confs]
    pollers,           \* the pollMessages loops started so far
    monitors,          \* the monitorConfirmations loops started so far
    relayed,           \* per transferId: adapter calls that succeeded (saturating)
    invoked,           \* transferIds relayMessage has been called for
    attempts,          \* per transferId: calls of relayMessage; above the
                       \* retry budget only their parity is kept
    submitted,         \* per transferId: calls of submitCrossChainMessage
                       \* (saturating)
    quorumSeen,        \* transferIds that have held >= requiredSignatures
                       \* confirmations at some time
    processed,         \* the last processConfirmedTransfer call: its transferId
                       \* and the signers of the confirmations it was given
    \* MessageBus
    messageHashes,     \* Map<string, CrossChainMessage>
    publishedHashes,   \* the hashes publishMessage has returned so far
    busResult,         \* the last MessageBus call and what it returned
    \* CrossChainBridge and PolygonBridge (one instance of each)
    bridgeTransfers,   \* per contract: mapping(bytes32 => Transfer)
    bridgeBalance,     \* per contract: the token balance of the contract
    bridgePaid,        \* per contract and transferId: payouts made by
                       \* complete / fastConfirm / cancel (saturating)
    bridgeDeposits,    \* per contract: initiateCrossChainTransfer calls that
                       \* succeeded
    blockTimestamp,    \* block.timestamp of the transaction being run
    bridgePaused,      \* per contract: Pausable's paused flag
    bridgeResult,      \* the last contract call and its outcome
    \* ConfidentialTransaction.verifyConfidentialTransfer
    ctSpentNullifiers, \* the Set<string> the caller passes (by reference)
    ctPending,         \* calls suspended at the await of line 303, oldest first
    ctResult,          \* the last value a call returned
    \* MultiSigVault
    vaultVerifies,     \* which copy of the class runs: part_003 (TRUE), whose
                       \* executeTransaction verifies the signatures, or
                       \* rivicq-enterprise.ts (FALSE), which does not
    signatures,        \* Map<string, MultiSigSignature[]>, by txHash
    executedTransactions, \* Set<string>
    vaultPending,      \* executeTransaction calls suspended at an await,
                       \* each with its local `sigs`
    vaultRan,          \* per txHash: calls of executeFn (saturating)
    vaultResult,       \* the last value returned or error thrown
    \* AuditLogger
    logs,              \* AuditLogEntry[]
    auditClock,        \* Date.now() / the number of log calls made
    auditIssued,       \* the entries whose id log has returned, in order
    auditResult,       \* the last value query returned
    \* ComplianceMonitor
    rules,             \* Map<string, ComplianceRule>: the rule ids in
                       \* insertion order
    alerts,            \* Map<string, ComplianceAlert>: alert id -> rule id
    auditLog,          \* AuditEntry[]
    monitorResult,     \* the last evaluateTransfer call and its result
    \* RateLimiter
    records,           \* Map<string, RateLimitRecord>
    limiterNow,        \* Date.now(), in minutes
    limiterResult,     \* the last call and its result
    \* TimelockVault
    schedules,         \* Map<string, TimelockSchedule>, by schedule id
    timelockNow,       \* Date.now(), in seconds
    releasing,         \* executeSchedule calls suspended at `await releaseFn()`
    timelockResult,    \* the last value returned or error thrown
    \* AccessControl
    userRoles,         \* Map<string, AccessControlUser>, by lower-case address
    accessResult,      \* the last hasPermission call and what it returned
    \* SocialRecoveryManager
    recoveryRequests,  \* Map<string, {newOwner, approvals, deadline}>, by
                       \* request id
    lockedAccounts,    \* Set<string>
    recoveryNow,       \* Date.now(), in seconds
    recoveryResult     \* the last value returned or error thrown

ledgerVars == <<spentNullifiers, coreResult, coreVerified,
                notes, nullifierSet, commitmentTree, poolResult, poolWithdrawn>>
treeVars   == <<depth, leaves, nodes, inserting, insertLog, proofResult>>
relayVars  == <<isRunning, messageQueue, confirmations, pollers, monitors,
                relayed, invoked, attempts, submitted, quorumSeen, processed>>
busVars    == <<messageHashes, publishedHashes, busResult>>
bridgeVars == <<bridgeTransfers, bridgeBalance, bridgePaid, bridgeDeposits,
                blockTimestamp, bridgePaused, bridgeResult>>
ctVars     == <<ctSpentNullifiers, ctPending, ctResult>>
protocolVars == <<ledgerVars, treeVars, relayVars, busVars, bridgeVars>>
vaultVars  == <<vaultVerifies, signatures, executedTransactions, vaultPending,
                vaultRan, vaultResult>>
auditVars  == <<logs, auditClock, auditIssued, auditResult>>
monitorVars == <<rules, alerts, auditLog, monitorResult>>
limiterVars == <<records, limiterNow, limiterResult>>
timelockVars == <<schedules, timelockNow, releasing, timelockResult>>
accessVars == <<userRoles, accessResult>>
recoveryVars == <<recoveryRequests, lockedAccounts, recoveryNow,
                  recoveryResult>>
serviceVars  == <<ctVars, vaultVars, auditVars, monitorVars, limiterVars,
                  timelockVars, accessVars, recoveryVars>>
vars       == <<protocolVars, serviceVars>>

\* What an action of one service leaves alone.
olderVars == <<ctVars, vaultVars, auditVars, monitorVars, limiterVars>>
newerVars == <<timelockVars, accessVars, recoveryVars>>
exceptTimelock == <<protocolVars, olderVars, accessVars, recoveryVars>>
exceptAccess == <<protocolVars, olderVars, timelockVars, recoveryVars>>
exceptRecovery == <<protocolVars, olderVars, timelockVars, accessVars>>
exceptCt == <<protocolVars, vaultVars, auditVars, monitorVars, limiterVars,
    newerVars>>
exceptVault == <<protocolVars, ctVars, auditVars, monitorVars, limiterVars,
    newerVars>>
exceptAudit == <<protocolVars, ctVars, vaultVars, monitorVars, limiterVars,
    newerVars>>
exceptMonitor == <<protocolVars, ctVars, vaultVars, auditVars, limiterVars,
    newerVars>>
exceptLimiter == <<protocolVars, ctVars, vaultVars, auditVars, monitorVars,
    newerVars>>

Min(a, b) == IF a < b THEN a ELSE b

RECURSIVE Pow2(_)
Pow2(n) == IF n = 0 THEN 1 ELSE 2 * Pow2(n - 1)

(***************************************************************************)
(* Bounds of the model.                                                    *)
(***************************************************************************)
MaxCount    == 2   \* saturation of the success counters
MaxBlock    == 1   \* block numbers passed to verifyTransferProof: 1..MaxBlock
MaxAmount   == 2   \* deposit amounts 1..MaxAmount
MaxSalt     == 2   \* salts 1..MaxSalt
PoolSize    == 2   \* ShieldedPool poolSize (constructor argument)
MaxDepth    == 2   \* MerkleTree depths 1..MaxDepth
MaxInflight == 2   \* insert calls in progress at the same time
MaxOverflow == 1   \* insert calls attempted beyond the capacity of the tree
MaxQueue    == 2   \* messages held in messageQueue
MaxConfs    == 2   \* confirmations stored per transferId
MaxLoops    == 2   \* loops of each kind alive at the same time
MaxPublished == 2  \* entries held by the MessageBus
MaxDeposits == 2   \* successful initiateCrossChainTransfer calls per contract
MaxTime     == 2   \* block timestamps 1..MaxTime
MaxPending  == 2   \* verifyConfidentialTransfer calls suspended at once
MaxOverlap  == 2   \* executeTransaction calls suspended at once
MaxEntries  == 4   \* calls of AuditLogger.log
MaxEvaluations == 2 \* calls of ComplianceMonitor.evaluateTransfer
MaxNow      == 2   \* Date.now() is in 1..MaxNow
MaxWaits    == 1   \* days the RateLimiter's clock runs
MaxClock    == 2   \* the TimelockVault's Date.now() is in 0..MaxClock
MaxReleasing == 2  \* executeSchedule calls suspended at once
MaxRecoveryClock == 1 \* the SocialRecoveryManager's Date.now() is in
                      \* 0..MaxRecoveryClock

(***************************************************************************)
(* Proofs (ZKProofOutput).  Only pi_a is ever inspected by the code.       *)
(***************************************************************************)
Proofs == {[pi_a |-> <<>>], [pi_a |-> <<"a1">>], [pi_a |-> <<"a2">>]}

\* rivicq-oss.ts:397  `proof.pi_a.length > 0`
ProofVerifies(proof) == Len(proof.pi_a) > 0

Secrets == {1}
Salts   == 1..MaxSalt
Amounts == 1..MaxAmount
Blocks  == 1..MaxBlock

\* ShieldedPool.hash: '0x' + the arguments, each padded to 64 hex digits,
\* concatenated: injective on its argument list, so modelled as the list.
PoolHash(data) == data

Nullifiers  == {PoolHash(<<s, t>>) : s \in Secrets, t \in Salts}
Commitments == {PoolHash(<<a, s, t>>) : a \in Amounts, s \in Secrets, t \in Salts}

NoCall == [op |-> "none"]

(***************************************************************************)
(* RivicQCore.verifyTransferProof                                          *)
(***************************************************************************)
CoreHas(spent, nullifier) == \E e \in spent : e[1] = nullifier

\* Map.set(nullifier, blockNumber)
CoreSet(spent, nullifier, blockNumber) ==
    {e \in spent : e[1] # nullifier} \cup {<<nullifier, blockNumber>>}

\* The map after a call that found the nullifier unspent (line 396).
CoreSpentAfter(spent, proof, nullifier, blockNumber) ==
    CoreSet(spent, nullifier, blockNumber)

\* The function body holds no await: the call runs to completion in one step.
VerifyTransferProof(proof, nullifier, blockNumber) ==
    /\ IF CoreHas(spentNullifiers, nullifier)
       THEN /\ coreResult' = [op |-> "verify", nullifier |-> nullifier,
                              proof |-> proof, ok |-> FALSE]
            /\ UNCHANGED <<spentNullifiers, coreVerified>>
       ELSE /\ spentNullifiers' =
                   CoreSpentAfter(spentNullifiers, proof, nullifier, blockNumber)
            /\ coreResult' = [op |-> "verify", nullifier |-> nullifier,
                              proof |-> proof, ok |-> ProofVerifies(proof)]
            /\ coreVerified' =
                   IF ProofVerifies(proof)
                   THEN [coreVerified EXCEPT
                            ![nullifier] = Min(@ + 1, MaxCount)]
                   ELSE coreVerified
    /\ UNCHANGED <<notes, nullifierSet, commitmentTree, poolResult, poolWithdrawn>>
    /\ UNCHANGED <<treeVars, relayVars, busVars, bridgeVars, serviceVars>>

(***************************************************************************)
(* ShieldedPool                                                            *)
(***************************************************************************)
Deposit(amount, secret, salt) ==
    /\ IF Len(commitmentTree) >= PoolSize
       THEN /\ poolResult' = [op |-> "deposit", ok |-> FALSE, error |-> "Pool is full"]
            /\ UNCHANGED <<notes, commitmentTree>>
       ELSE LET nullifier  == PoolHash(<<secret, salt>>)
                commitment == PoolHash(<<amount, secret, salt>>)
                note == [commitment |-> commitment, nullifier |-> nullifier,
                         amount |-> amount, salt |-> salt, spent |-> FALSE,
                         leafIndex |-> Len(commitmentTree)]
            IN /\ notes' = [c \in DOMAIN notes \cup {commitment} |->
                               IF c = commitment THEN note ELSE notes[c]]
               /\ commitmentTree' = Append(commitmentTree, commitment)
               /\ poolResult' = [op |-> "deposit", ok |-> TRUE,
                                 commitment |-> commitment,
                                 nullifier |-> nullifier,
                                 leafIndex |-> note.leafIndex]
    /\ UNCHANGED <<nullifierSet, poolWithdrawn>>
    /\ UNCHANGED <<spentNullifiers, coreResult, coreVerified>>
    /\ UNCHANGED <<treeVars, relayVars, busVars, bridgeVars, serviceVars>>

WithdrawFails(commitment, proof, error) ==
    /\ poolResult' = [op |-> "withdraw", commitment |-> commitment,
                      proof |-> proof, ok |-> FALSE, error |-> error]
    /\ UNCHANGED <<notes, nullifierSet, poolWithdrawn>>

\* Faulty variant: the nullifier is not recorded.
PoolNullifiersAfterNoAdd(set, nullifier) == set
\* The nullifier set after a successful withdrawal (line 920).
PoolNullifiersAfter(set, nullifier) == set \cup {nullifier}

\* The checks a withdrawal must pass (lines 906-917); the proof is not read.
WithdrawRejection(commitment, proof) ==
    IF commitment \notin DOMAIN notes THEN "Commitment not found"
    ELSE IF notes[commitment].spent THEN "Note already spent"
    ELSE IF notes[commitment].nullifier \in nullifierSet THEN "Double spend attempt"
    ELSE "none"

\* The function body holds no await: the call runs to completion in one step.
Withdraw(commitment, proof) ==
    /\ LET error == WithdrawRejection(commitment, proof)
       IN IF error # "none"
          THEN WithdrawFails(commitment, proof, error)
          ELSE LET nullifier == notes[commitment].nullifier
               IN /\ notes' = [notes EXCEPT ![commitment].spent = TRUE]
                  /\ nullifierSet' = PoolNullifiersAfter(nullifierSet, nullifier)
                  /\ poolResult' = [op |-> "withdraw", commitment |-> commitment,
                                    proof |-> proof, ok |-> TRUE,
                                    nullifier |-> nullifier]
                  /\ poolWithdrawn' = [poolWithdrawn EXCEPT
                                          ![nullifier] = Min(@ + 1, MaxCount)]
    /\ UNCHANGED commitmentTree
    /\ UNCHANGED <<spentNullifiers, coreResult, coreVerified>>
    /\ UNCHANGED <<treeVars, relayVars, busVars, bridgeVars, serviceVars>>

(***************************************************************************)
(* RelayerService                                                          *)
(* The fields providers and wallets are declared Map<number, ...> (their   *)
(* initialiser is an array literal); they are modelled as the maps that    *)
(* initialize() fills, as the tests of the repository use them.            *)
(* The adapter (wallet.sendTransaction, tx.wait) is external: each call    *)
(* ends in success or in failure.                                          *)
(***************************************************************************)
requiredSignatures == 2

TransferIds == {"t1"}
\* Chain ids: 1 (ETHEREUM_MAINNET) has a wallet and a bridge; 5 (GOERLI) has
\* no entry in CHAIN_CONFIGS, hence no wallet.
ChainIds     == {1, 5}
WalletChains == {1}
\* Block numbers of confirmations: processConfirmedTransfer uses the first
\* one as the destination chain id, so only a block number that is also a
\* configured chain id lets the confirmed path reach the adapter.
BlockNumbers == {1}
AddressZero == "0x0"
Signers     == {"A", "B", "X"}

Messages == [transferId : TransferIds, recipient : {"r1"}, amount : {1},
             destinationChainId : ChainIds, token : {"token"}]
\* RelayConfirmation: `signers` is a string[]; confirmations carry one signer.
Confirmations == [transferId : TransferIds, blockNumber : BlockNumbers,
                  signers : {<<g>> : g \in Signers}]

NoMsg  == [transferId |-> "none"]
Idle   == [pc |-> "idle", msg |-> NoMsg]
IdleM  == [pc |-> "idle", idx |-> 0, msg |-> NoMsg]

\* relayMessage up to its first await: it throws unless the destination chain
\* has a wallet and a configured bridge (lines 122-130).
Routable(message) == message.destinationChainId \in WalletChains

\* this.confirmations.get(transferId) || []
ConfsOf(cs, transferId) ==
    IF \E j \in 1..Len(cs) : cs[j].transferId = transferId
    THEN cs[CHOOSE j \in 1..Len(cs) : cs[j].transferId = transferId].confs
    ELSE << >>

\* getConfirmationCount(transferId)
GetConfirmationCount(transferId) == Len(ConfsOf(confirmations, transferId))

\* getQueueLength()
GetQueueLength == Len(messageQueue)

\* Map.set(transferId, existing): an existing key keeps its place.
ConfsSet(cs, transferId, existing) ==
    IF \E j \in 1..Len(cs) : cs[j].transferId = transferId
    THEN [j \in 1..Len(cs) |->
            IF cs[j].transferId = transferId
            THEN [transferId |-> transferId, confs |-> existing] ELSE cs[j]]
    ELSE Append(cs, [transferId |-> transferId, confs |-> existing])

\* Position of a key in the map's entry list (0: absent).
ConfsPos(cs, transferId) ==
    IF \E j \in 1..Len(cs) : cs[j].transferId = transferId
    THEN CHOOSE j \in 1..Len(cs) : cs[j].transferId = transferId
    ELSE 0

\* Map.delete(transferId)
ConfsDelete(cs, transferId) ==
    LET p == ConfsPos(cs, transferId)
    IN IF p = 0 THEN cs
       ELSE [j \in 1..(Len(cs) - 1) |-> IF j < p THEN cs[j] ELSE cs[j + 1]]

\* A live Map iterator that has passed idx entries, after the entry at
\* position p was deleted.
IterAfterDelete(idx, p) == IF p # 0 /\ idx >= p THEN idx - 1 ELSE idx

\* The signers named by a list of confirmations.
SignersOf(confs) ==
    UNION {{confs[j].signers[k] : k \in 1..Len(confs[j].signers)} :
             j \in 1..Len(confs)}

\* The quorum test of monitorConfirmations (line 159).
HasQuorum(confs) == Len(confs) >= requiredSignatures

\* The for-loop of monitorConfirmations from iterator position idx: the
\* position of the next entry that passes the quorum test (0: none left).
NextConfirmed(cs, idx) ==
    LET S == {j \in (idx + 1)..Len(cs) : HasQuorum(cs[j].confs)}
    IN IF S = {} THEN 0 ELSE CHOOSE j \in S : \A k \in S : j <= k

\* processConfirmedTransfer builds the message it relays (lines 189-200).
ConfirmedMessage(transferId, confs) ==
    [transferId |-> transferId, recipient |-> AddressZero, amount |-> 0,
     destinationChainId |-> confs[1].blockNumber, token |-> AddressZero]

\* The retry budget of the relay.  RelayerConfig has no field for it and the
\* code never counts attempts.
maxAttempts == 2

\* One more call of relayMessage for a transferId.  The count is exact up to
\* maxAttempts + 1; beyond, it alternates between maxAttempts + 1 and
\* maxAttempts + 2, so that every call changes the state.
Attempted(att, transferId) ==
    [att EXCEPT ![transferId] =
        IF @ <= maxAttempts THEN @ + 1
        ELSE IF @ = maxAttempts + 1 THEN maxAttempts + 2
        ELSE maxAttempts + 1]

\* Faulty variant: a message whose dispatch failed is dropped.
QueueAfterFailureDrop(q, message) == q
\* The catch of processMessageQueue: `this.messageQueue.push(message)`.
QueueAfterFailure(q, message) == Append(q, message)

submitCrossChainMessage(message) ==
    /\ Len(messageQueue) < MaxQueue
    /\ messageQueue' = Append(messageQueue, message)
    /\ submitted' = [submitted EXCEPT
                        ![message.transferId] = Min(@ + 1, MaxCount)]
    /\ UNCHANGED <<isRunning, confirmations, pollers, monitors, relayed,
                   invoked, attempts, quorumSeen, processed>>
    /\ UNCHANGED <<ledgerVars, treeVars, busVars, bridgeVars, serviceVars>>

addConfirmation(confirmation) ==
    /\ GetConfirmationCount(confirmation.transferId) < MaxConfs
    /\ LET existing == ConfsOf(confirmations, confirmation.transferId)
       IN /\ confirmations' = ConfsSet(confirmations, confirmation.transferId,
                                       Append(existing, confirmation))
          /\ quorumSeen' = IF Len(existing) + 1 >= requiredSignatures
                           THEN quorumSeen \cup {confirmation.transferId}
                           ELSE quorumSeen
    /\ UNCHANGED <<isRunning, messageQueue, pollers, monitors, relayed,
                   invoked, attempts, submitted, processed>>
    /\ UNCHANGED <<ledgerVars, treeVars, busVars, bridgeVars, serviceVars>>

\* One iteration of the while-loop of processMessageQueue on queue q, up to
\* its await: the queue is empty (the poll loop goes to sleep), or the head is
\* shifted and relayMessage called; if relayMessage throws before its first
\* await, the message is pushed back and the loop goes round again (on the
\* microtask queue: pc "process").
QueueIteration(p, q) ==
    IF q = << >>
    THEN /\ pollers' = [pollers EXCEPT ![p] = [pc |-> "sleep", msg |-> NoMsg]]
         /\ messageQueue' = q
         /\ invoked' = invoked
         /\ attempts' = attempts
    ELSE LET message == Head(q)
         IN /\ invoked' = invoked \cup {message.transferId}
            /\ attempts' = Attempted(attempts, message.transferId)
            /\ IF Routable(message)
               THEN /\ pollers' = [pollers EXCEPT
                                     ![p] = [pc |-> "relaying", msg |-> message]]
                    /\ messageQueue' = Tail(q)
               ELSE /\ pollers' = [pollers EXCEPT
                                     ![p] = [pc |-> "process", msg |-> NoMsg]]
                    /\ messageQueue' = QueueAfterFailure(Tail(q), message)

\* The for-loop of monitorConfirmations over the map cs from iterator
\* position idx, up to its await: the next entry with quorum is handed to
\* processConfirmedTransfer, which calls relayMessage; an exception leaves the
\* for-loop and the monitor sleeps.  mons: the monitors before this step.
ConfirmationScan(m, mons, cs, idx) ==
    LET j == NextConfirmed(cs, idx)
    IN IF j = 0
       THEN /\ monitors' = [mons EXCEPT
                              ![m] = [pc |-> "sleep", idx |-> 0, msg |-> NoMsg]]
            /\ UNCHANGED <<invoked, attempts, processed>>
       ELSE LET message == ConfirmedMessage(cs[j].transferId, cs[j].confs)
            IN /\ processed' = [transferId |-> cs[j].transferId,
                                signers |-> SignersOf(cs[j].confs)]
               /\ invoked' = invoked \cup {message.transferId}
               /\ attempts' = Attempted(attempts, message.transferId)
               /\ monitors' =
                    [mons EXCEPT
                       ![m] = IF Routable(message)
                              THEN [pc |-> "relaying", idx |-> j, msg |-> message]
                              ELSE [pc |-> "sleep", idx |-> 0, msg |-> NoMsg]]

\* start(): both loops are called and run up to their first await.
start ==
    /\ \E p \in 1..MaxLoops : pollers[p].pc = "idle"
    /\ \E m \in 1..MaxLoops : monitors[m].pc = "idle"
    /\ isRunning' = TRUE
    /\ LET p == CHOOSE q \in 1..MaxLoops : pollers[q].pc = "idle"
           m == CHOOSE q \in 1..MaxLoops : monitors[q].pc = "idle"
       IN /\ pollers' = [pollers EXCEPT ![p] = [pc |-> "fetch", msg |-> NoMsg]]
          /\ ConfirmationScan(m, monitors, confirmations, 0)
    /\ UNCHANGED <<messageQueue, confirmations, relayed, submitted, quorumSeen>>
    /\ UNCHANGED <<ledgerVars, treeVars, busVars, bridgeVars, serviceVars>>

stop ==
    /\ isRunning' = FALSE
    /\ UNCHANGED <<messageQueue, confirmations, pollers, monitors, relayed,
                   invoked, attempts, submitted, quorumSeen, processed>>
    /\ UNCHANGED <<ledgerVars, treeVars, busVars, bridgeVars, serviceVars>>

\* pollMessages: fetchPendingMessages has returned; processMessageQueue starts.
PollFetched(p) ==
    /\ pollers[p].pc = "fetch"
    /\ QueueIteration(p, messageQueue)
    /\ UNCHANGED <<isRunning, confirmations, monitors, relayed, submitted,
                   quorumSeen, processed>>
    /\ UNCHANGED <<ledgerVars, treeVars, busVars, bridgeVars, serviceVars>>

\* processMessageQueue goes round after relayMessage threw synchronously.
PollRetry(p) ==
    /\ pollers[p].pc = "process"
    /\ QueueIteration(p, messageQueue)
    /\ UNCHANGED <<isRunning, confirmations, monitors, relayed, submitted,
                   quorumSeen, processed>>
    /\ UNCHANGED <<ledgerVars, treeVars, busVars, bridgeVars, serviceVars>>

\* The adapter call of the queue path succeeded: the loop goes on.
PollRelayOk(p) ==
    /\ pollers[p].pc = "relaying"
    /\ relayed' = [relayed EXCEPT
                     ![pollers[p].msg.transferId] = Min(@ + 1, MaxCount)]
    /\ QueueIteration(p, messageQueue)
    /\ UNCHANGED <<isRunning, confirmations, monitors, submitted, quorumSeen,
                   processed>>
    /\ UNCHANGED <<ledgerVars, treeVars, busVars, bridgeVars, serviceVars>>

\* The adapter call of the queue path failed: the message is pushed back.
PollRelayFail(p) ==
    /\ pollers[p].pc = "relaying"
    /\ QueueIteration(p, QueueAfterFailure(messageQueue, pollers[p].msg))
    /\ UNCHANGED <<isRunning, confirmations, monitors, relayed, submitted,
                   quorumSeen, processed>>
    /\ UNCHANGED <<ledgerVars, treeVars, busVars, bridgeVars, serviceVars>>

\* The sleep of pollMessages ends: the while condition is tested again.
PollWake(p) ==
    /\ pollers[p].pc = "sleep"
    /\ pollers' = [pollers EXCEPT
                     ![p] = IF isRunning THEN [pc |-> "fetch", msg |-> NoMsg]
                            ELSE Idle]
    /\ UNCHANGED <<isRunning, messageQueue, confirmations, monitors, relayed,
                   invoked, attempts, submitted, quorumSeen, processed>>
    /\ UNCHANGED <<ledgerVars, treeVars, busVars, bridgeVars, serviceVars>>

\* The adapter call of processConfirmedTransfer succeeded: the entry is
\* deleted and the for-loop goes on.
MonitorRelayOk(m) ==
    /\ monitors[m].pc = "relaying"
    /\ LET transferId == monitors[m].msg.transferId
           p == ConfsPos(confirmations, transferId)
           cs == ConfsDelete(confirmations, transferId)
           mons == [k \in DOMAIN monitors |->
                      [monitors[k] EXCEPT !.idx = IterAfterDelete(@, p)]]
       IN /\ relayed' = [relayed EXCEPT ![transferId] = Min(@ + 1, MaxCount)]
          /\ confirmations' = cs
          /\ ConfirmationScan(m, mons, cs, mons[m].idx)
    /\ UNCHANGED <<isRunning, messageQueue, pollers, submitted, quorumSeen>>
    /\ UNCHANGED <<ledgerVars, treeVars, busVars, bridgeVars, serviceVars>>

\* The adapter call of processConfirmedTransfer failed: the exception is
\* caught outside the for-loop, the entry stays, the monitor sleeps.
MonitorRelayFail(m) ==
    /\ monitors[m].pc = "relaying"
    /\ monitors' = [monitors EXCEPT
                      ![m] = [pc |-> "sleep", idx |-> 0, msg |-> NoMsg]]
    /\ UNCHANGED <<isRunning, messageQueue, confirmations, pollers, relayed,
                   invoked, attempts, submitted, quorumSeen, processed>>
    /\ UNCHANGED <<ledgerVars, treeVars, busVars, bridgeVars, serviceVars>>

\* The sleep of monitorConfirmations ends: the while condition is tested again.
MonitorWake(m) ==
    /\ monitors[m].pc = "sleep"
    /\ IF isRunning
       THEN ConfirmationScan(m, monitors, confirmations, 0)
       ELSE /\ monitors' = [monitors EXCEPT ![m] = IdleM]
            /\ UNCHANGED <<invoked, attempts, processed>>
    /\ UNCHANGED <<isRunning, messageQueue, confirmations, pollers, relayed,
                   submitted, quorumSeen>>
    /\ UNCHANGED <<ledgerVars, treeVars, busVars, bridgeVars, serviceVars>>

InitRelayer ==
    /\ isRunning = FALSE
    /\ messageQueue = << >>
    /\ confirmations = << >>
    /\ pollers = [p \in 1..MaxLoops |-> Idle]
    /\ monitors = [m \in 1..MaxLoops |-> IdleM]
    /\ relayed = [t \in TransferIds |-> 0]
    /\ invoked = {}
    /\ attempts = [t \in TransferIds |-> 0]
    /\ submitted = [t \in TransferIds |-> 0]
    /\ quorumSeen = {}
    /\ processed = NoCall

InitLedger ==
    /\ spentNullifiers = {}
    /\ coreResult = NoCall
    /\ coreVerified = [n \in Nullifiers |-> 0]
    /\ notes = << >>
    /\ nullifierSet = {}
    /\ commitmentTree = << >>
    /\ poolResult = NoCall
    /\ poolWithdrawn = [n \in Nullifiers |-> 0]

(***************************************************************************)
(* MerkleTree                                                              *)
(* Hashes are terms: a leaf commitment is <<name>>, the zero value is      *)
(* <<"0">>, and MiMC7.hash([left, right], 0n) is the pair <<left, right>>  *)
(* (a collision-free combine function).  A hole of a sparse array          *)
(* (undefined) is << >>.                                                   *)
(***************************************************************************)
TreeLeaves == {<<"c1">>, <<"c2">>}
zeroValue  == <<"0">>
Hole       == << >>

\* MiMC7.hash([BigInt(left), BigInt(right)], 0n), as a 64-digit hex string
MiMC7Hash(left, right) == <<left, right>>

\* `levelNodes[i] || this.zeroValue`
OrZero(levelNodes, i) ==
    IF i \in DOMAIN levelNodes /\ levelNodes[i] # Hole THEN levelNodes[i]
    ELSE zeroValue

\* Faulty variant: the leaf is put in front.
LeavesAfterUnshift(lv, leaf) == <<leaf>> \o lv
\* this.leaves.push(leaf)
LeavesAfterPush(lv, leaf) == Append(lv, leaf)

\* Faulty variant: the capacity test is off by one.
TreeIsFullOffByOne(index, d) == index > Pow2(d)
\* The capacity test of insert (line 170).
TreeIsFull(index, d) == index >= Pow2(d)

\* updateTree, level >= 1, up to its await: the hash whose result is awaited.
LevelHash(nd, level, currentIndex, currentHash) ==
    LET siblingIndex == IF currentIndex % 2 = 0 THEN currentIndex + 1
                        ELSE currentIndex - 1
        sibling == OrZero(nd[level], siblingIndex)
    IN IF currentIndex % 2 = 0 THEN MiMC7Hash(sibling, currentHash)
       ELSE MiMC7Hash(currentHash, sibling)

\* insert(leaf): the capacity check, the push, level 0 of updateTree and the
\* call of MiMC7.hash for level 1 run without suspension; the call then waits.
Insert(leaf) ==
    /\ Len(insertLog) < Pow2(depth) + MaxOverflow
    /\ LET index == Len(leaves)
       IN IF TreeIsFull(index, depth)
          THEN /\ insertLog' = Append(insertLog,
                      [status |-> "Merkle tree is full", index |-> -1])
               /\ UNCHANGED <<leaves, nodes, inserting>>
          ELSE /\ Len(inserting) < MaxInflight
               /\ leaves' = LeavesAfterPush(leaves, leaf)
               /\ nodes' = [nodes EXCEPT ![0][index] = leaf]
               /\ inserting' = Append(inserting,
                      [call |-> Len(insertLog) + 1, index |-> index, level |-> 1,
                       currentIndex |-> index \div 2,
                       currentHash |-> LevelHash(nodes', 1, index \div 2, leaf)])
               /\ insertLog' = Append(insertLog,
                      [status |-> "inserting", index |-> index])
    /\ UNCHANGED <<depth, proofResult>>
    /\ UNCHANGED <<ledgerVars, relayVars, busVars, bridgeVars, serviceVars>>

\* The oldest suspended updateTree resumes after `await MiMC7.hash(...)` (the
\* awaited promises are already resolved, so continuations run in FIFO order):
\* it stores the parent, moves up, and starts the next level's hash or returns.
UpdateTreeResume ==
    /\ inserting # << >>
    /\ LET task == Head(inserting)
           parent == task.currentIndex \div 2
           written == [nodes EXCEPT ![task.level][parent] = task.currentHash]
       IN /\ nodes' = written
          /\ IF task.level < depth
             THEN /\ inserting' = Append(Tail(inserting),
                         [task EXCEPT
                             !.level = task.level + 1,
                             !.currentIndex = parent,
                             !.currentHash = LevelHash(written, task.level + 1,
                                                       parent, task.currentHash)])
                  /\ UNCHANGED insertLog
             ELSE /\ inserting' = Tail(inserting)
                  /\ insertLog' = [insertLog EXCEPT ![task.call].status = "ok"]
    /\ UNCHANGED <<depth, leaves, proofResult>>
    /\ UNCHANGED <<ledgerVars, relayVars, busVars, bridgeVars, serviceVars>>

\* getRoot(): `rootNodes[0] || this.zeroValue`
GetRoot == OrZero(nodes[depth], 0)

\* getProof(index): the body holds no await.  The siblings are read from
\* nodes[level] at (index >> level) XOR 1, the bits are (index >> level) % 2.
GetProof(index) ==
    IF index >= Len(leaves)
    THEN [status |-> "Invalid index"]
    ELSE [status |-> "ok",
          root |-> GetRoot,
          pathElements |-> [l \in 1..depth |->
              LET currentIndex == index \div Pow2(l - 1)
                  siblingIndex == IF currentIndex % 2 = 0 THEN currentIndex + 1
                                  ELSE currentIndex - 1
              IN OrZero(nodes[l - 1], siblingIndex)],
          pathIndices |-> [l \in 1..depth |-> (index \div Pow2(l - 1)) % 2],
          leaf |-> leaves[index + 1]]

\* A call of getProof(index).
getProof(index) ==
    /\ proofResult' = [index |-> index, value |-> GetProof(index)]
    /\ UNCHANGED <<depth, leaves, nodes, inserting, insertLog>>
    /\ UNCHANGED <<ledgerVars, relayVars, busVars, bridgeVars, serviceVars>>

\* The for-loop of updateTree from `level` on, run without another insert in
\* between: the level arrays it leaves behind.
RECURSIVE UpdateLevels(_, _, _, _, _)
UpdateLevels(nd, d, level, currentIndex, currentHash) ==
    IF level > d THEN nd
    ELSE LET h == LevelHash(nd, level, currentIndex, currentHash)
         IN UpdateLevels([nd EXCEPT ![level][currentIndex \div 2] = h],
                         d, level + 1, currentIndex \div 2, h)

\* The level arrays of a fresh tree of depth d after `await insert(leaf)` for
\* each leaf of seq in turn.
RECURSIVE SerialNodes(_, _)
SerialNodes(d, seq) ==
    IF seq = << >>
    THEN [l \in 0..d |-> [i \in 0..(Pow2(d) - 1) |-> Hole]]
    ELSE LET index == Len(seq) - 1
             leaf == seq[Len(seq)]
             before == SerialNodes(d, SubSeq(seq, 1, index))
         IN UpdateLevels([before EXCEPT ![0][index] = leaf],
                         d, 1, index \div 2, leaf)

\* getRoot() of that tree.
SerialRoot(d, seq) == OrZero(SerialNodes(d, seq)[d], 0)

\* new MerkleTree(d)
TreeConstructed(d) ==
    /\ depth = d
    /\ leaves = << >>
    /\ nodes = [l \in 0..depth |-> [i \in 0..(Pow2(depth) - 1) |-> Hole]]
    /\ inserting = << >>
    /\ insertLog = << >>
    /\ proofResult = NoCall

(***************************************************************************)
(* MessageBus                                                              *)
(* ethers.solidityPackedEncode is read as the packed ABI encoding of the   *)
(* nine fields.  Every field has a fixed width (bytes32, address,          *)
(* uint256), so the encoding is injective on the encoded values, and       *)
(* keccak256 is taken as collision-free: a hash is the tuple of the        *)
(* encoded fields.  An address is encoded by its bytes, whatever the case  *)
(* of its hex digits.                                                      *)
(***************************************************************************)
BaseMessage ==
    [transferId |-> "0x01", sender |-> "0xab", recipient |-> "0xcd",
     amount |-> 1, sourceChainId |-> 1, destinationChainId |-> 137,
     token |-> "0xef", timestamp |-> 1, nonce |-> 1]

\* The messages given to the bus: one message, messages that differ from it
\* in one field, and the message that spells the sender in upper case.
BusMessages ==
    {BaseMessage,
     [BaseMessage EXCEPT !.transferId = "0x02"],
     [BaseMessage EXCEPT !.sender = "0xAB"],
     [BaseMessage EXCEPT !.amount = 2],
     [BaseMessage EXCEPT !.sourceChainId = 137],
     [BaseMessage EXCEPT !.destinationChainId = 1],
     [BaseMessage EXCEPT !.token = "0x56"],
     [BaseMessage EXCEPT !.timestamp = 2],
     [BaseMessage EXCEPT !.nonce = 2]}

\* The bytes an 'address' value is encoded to.
AddressBytes(a) == IF a = "0xAB" THEN "0xab" ELSE a

\* keccak256(solidityPackedEncode([...nine types], [...nine fields]))
MessageHash(message) ==
    <<message.transferId, AddressBytes(message.sender),
      AddressBytes(message.recipient), message.amount, message.sourceChainId,
      message.destinationChainId, AddressBytes(message.token),
      message.timestamp, message.nonce>>

BusHashes == {MessageHash(m) : m \in BusMessages}

\* A transferId handed to getMessage as the key: the same 32-byte string is
\* the same key, and it is no keccak256 output of an encoding that holds it.
TransferIdKey(transferId) == <<transferId>>

\* The strings getMessage is called with.
BusKeys == BusHashes \cup {TransferIdKey(m.transferId) : m \in BusMessages}

Null == [transferId |-> "null"]

\* Faulty variant: an entry that exists is not overwritten.
BusSetKeepFirst(map, hash, message) ==
    IF hash \in DOMAIN map THEN map
    ELSE [h \in DOMAIN map \cup {hash} |-> IF h = hash THEN message ELSE map[h]]
\* this.messageHashes.set(hash, message)
BusSet(map, hash, message) ==
    [h \in DOMAIN map \cup {hash} |-> IF h = hash THEN message ELSE map[h]]

\* this.messageHashes.get(hash) || null
BusGet(map, hash) == IF hash \in DOMAIN map THEN map[hash] ELSE Null

\* The comparison of verifyMessage (lines 260-266): four fields, by ===
\* and BigNumber.eq.
BusVerify(map, hash, message) ==
    LET stored == BusGet(map, hash)
    IN IF stored = Null THEN FALSE
       ELSE /\ stored.transferId = message.transferId
            /\ stored.sender = message.sender
            /\ stored.recipient = message.recipient
            /\ stored.amount = message.amount

\* The bodies of publishMessage and getMessage hold no await; verifyMessage
\* awaits getMessage, which has read the map when it returns its promise,
\* and reads no state after the await: each call is one step.
publishMessage(message) ==
    /\ LET hash == MessageHash(message)
       IN /\ hash \in DOMAIN messageHashes
             \/ Cardinality(DOMAIN messageHashes) < MaxPublished
          /\ messageHashes' = BusSet(messageHashes, hash, message)
          /\ publishedHashes' = publishedHashes \cup {hash}
          /\ busResult' = [op |-> "publish", message |-> message, hash |-> hash]
    /\ UNCHANGED <<ledgerVars, treeVars, relayVars, bridgeVars, serviceVars>>

getMessage(hash) ==
    /\ busResult' = [op |-> "get", hash |-> hash,
                     message |-> BusGet(messageHashes, hash)]
    /\ UNCHANGED <<messageHashes, publishedHashes>>
    /\ UNCHANGED <<ledgerVars, treeVars, relayVars, bridgeVars, serviceVars>>

verifyMessage(hash, message) ==
    /\ busResult' = [op |-> "verify", hash |-> hash, message |-> message,
                     ok |-> BusVerify(messageHashes, hash, message)]
    /\ UNCHANGED <<messageHashes, publishedHashes>>
    /\ UNCHANGED <<ledgerVars, treeVars, relayVars, bridgeVars, serviceVars>>

InitBus ==
    /\ messageHashes = << >>
    /\ publishedHashes = {}
    /\ busResult = NoCall

(***************************************************************************)
(* CrossChainBridge (CrossChainBridge.sol) and PolygonBridge               *)
(* (EIDASCompliance.sol).  State after deployment and set-up: the token is *)
(* whitelisted and a plain ERC20 (no callback on transfer), the contract   *)
(* starts unpaused, the account "relayer" holds RELAYER_ROLE, and the      *)
(* senders hold enough tokens and allowance.  A transaction runs to its    *)
(* end in one step; a revert undoes all its writes.  keccak256 is taken as *)
(* collision-free: a transferId is the tuple that is hashed.               *)
(***************************************************************************)
Contracts == {"CrossChainBridge", "PolygonBridge"}

feeBasisPoints    == 25
minTransferAmount == 1000
\* The constructors set maxTransferAmount to 10^9 * 10^18 and 10^10 * 10^18;
\* in the set-up the admin has called setTransferLimits(1000, 2000), which
\* keeps the minimum and brings the maximum into the range of the amounts
\* drawn here.
maxTransferAmount == 2000

\* block.chainid of the chain a contract is deployed on, and the chain it
\* sends to.
BridgeChainId(c) == IF c = "CrossChainBridge" THEN 1 ELSE 137
BridgeDestination(c) == IF c = "CrossChainBridge" THEN 137 ELSE 1

BridgeCallers    == {"relayer", "s1"}
\* The account holding DEFAULT_ADMIN_ROLE, and the callers of the admin
\* functions.
BridgeAdmin      == "admin"
AdminCallers     == {"admin", "s1"}
BridgeSenders    == {"s1"}
BridgeRecipients == {"r1", "r2"}
BridgeAmounts    == {500, 1000}
\* The amounts a relayer passes to completeCrossChainTransfer: the net and
\* the gross amount of a transfer of 1000.
CompleteAmounts  == {998, 1000}
Timestamps       == 1..MaxTime

\* The arguments of initiateCrossChainTransfer: every amount of
\* BridgeAmounts and one above maxTransferAmount; the whitelisted token and another
\* one; the destination chain of the contract and one no constructor lists;
\* a recipient and address(0).
InitiateAmounts  == BridgeAmounts \cup {maxTransferAmount + 1000}
BridgeTokens     == {"token", "other"}
DestinationIds(c) == {BridgeDestination(c), 99999}
InitiateRecipients == {"r1", AddressZero}

\* whitelistedTokens after the set-up and supportedChains after the
\* constructor.
whitelistedTokens == {"token"}
supportedChains(c) ==
    IF c = "CrossChainBridge" THEN {1, 137, 5, 80001} ELSE {1, 137, 42161, 10}


\* keccak256(abi.encodePacked(msg.sender, recipient, amount,
\* destinationChainId, block.timestamp, block.chainid [, token]))
BridgeTransferId(c, sender, recipient, amount, destinationChainId, timestamp, token) ==
    IF c = "CrossChainBridge"
    THEN <<sender, recipient, amount, destinationChainId, timestamp,
           BridgeChainId(c)>>
    ELSE <<sender, recipient, amount, destinationChainId, timestamp,
           BridgeChainId(c), token>>

\* The transferIds a call with the arguments drawn here can record.
BridgeIds(c) ==
    {BridgeTransferId(c, s, r, a, BridgeDestination(c), t, "token") :
        s \in BridgeSenders, r \in {"r1"}, a \in BridgeAmounts,
        t \in Timestamps}

\* The transferId slot of a call that reverts before computing one.
NoId == <<>>

\* A mapping slot that was never written: every field is zero.
NoTransfer ==
    [sender |-> AddressZero, recipient |-> AddressZero, amount |-> 0,
     status |-> "Pending", feePaid |-> 0]

\* The fee of initiateCrossChainTransfer (integer division).
BridgeFee(c, amount, useFastConfirmation) ==
    IF c = "PolygonBridge" /\ useFastConfirmation
    THEN (amount * (feeBasisPoints * 2)) \div 10000
    ELSE (amount * feeBasisPoints) \div 10000

\* The fee PolygonBridge sends on to feeCollector; CrossChainBridge keeps it.
FeeForwarded(c, fee) == IF c = "PolygonBridge" THEN fee ELSE 0

Reverts(c, op, transferId, error) ==
    /\ bridgeResult' = [contract |-> c, op |-> op, transferId |-> transferId,
                        ok |-> FALSE, error |-> error]
    /\ UNCHANGED <<bridgeTransfers, bridgeBalance, bridgePaid, bridgeDeposits>>

\* A payout of `amount` from the contract: the status is written, then
\* safeTransfer runs and reverts the transaction when the balance is short.
PaysOut(c, op, transferId, status, amount) ==
    IF bridgeBalance[c] < amount
    THEN Reverts(c, op, transferId, "ERC20: transfer amount exceeds balance")
    ELSE /\ bridgeTransfers' = [bridgeTransfers EXCEPT
                                  ![c][transferId].status = status]
         /\ bridgeBalance' = [bridgeBalance EXCEPT ![c] = @ - amount]
         /\ bridgePaid' = [bridgePaid EXCEPT
                             ![c][transferId] = Min(@ + 1, MaxCount)]
         /\ bridgeResult' = [contract |-> c, op |-> op,
                             transferId |-> transferId, ok |-> TRUE,
                             amount |-> amount]
         /\ UNCHANGED bridgeDeposits

\* The require of line 90 / line 336.
InvalidRecipientNever(recipient) == FALSE
InvalidRecipient(recipient) == recipient = AddressZero

initiateCrossChainTransfer(c, sender, recipient, amount, destinationChainId, token, useFastConfirmation) ==
    /\ bridgeDeposits[c] < MaxDeposits
    /\ LET fee == BridgeFee(c, amount, useFastConfirmation)
           transferId == BridgeTransferId(c, sender, recipient, amount,
                                          destinationChainId, blockTimestamp,
                                          token)
       IN IF bridgePaused[c]
          THEN Reverts(c, "initiate", NoId, "Pausable: paused")
          ELSE IF token \notin whitelistedTokens
          THEN Reverts(c, "initiate", NoId,
                       IF c = "CrossChainBridge" THEN "Token not whitelisted"
                       ELSE "Token not supported")
          ELSE IF destinationChainId \notin supportedChains(c)
          THEN Reverts(c, "initiate", NoId, "Chain not supported")
          ELSE IF amount < minTransferAmount
          THEN Reverts(c, "initiate", NoId, "Amount too low")
          ELSE IF amount > maxTransferAmount
          THEN Reverts(c, "initiate", NoId, "Amount too high")
          ELSE IF InvalidRecipient(recipient)
          THEN Reverts(c, "initiate", NoId, "Invalid recipient")
          ELSE /\ bridgeTransfers' =
                     [bridgeTransfers EXCEPT
                        ![c][transferId] =
                            [sender |-> sender, recipient |-> recipient,
                             amount |-> amount - fee, status |-> "Initiated",
                             feePaid |-> FeeForwarded(c, fee)]]
               /\ bridgeBalance' = [bridgeBalance EXCEPT
                                       ![c] = @ + amount - FeeForwarded(c, fee)]
               /\ bridgeDeposits' = [bridgeDeposits EXCEPT ![c] = @ + 1]
               /\ bridgeResult' = [contract |-> c, op |-> "initiate",
                                   transferId |-> transferId, ok |-> TRUE]
               /\ UNCHANGED bridgePaid
    /\ UNCHANGED <<blockTimestamp, bridgePaused>>
    /\ UNCHANGED <<ledgerVars, treeVars, relayVars, busVars, serviceVars>>

completeCrossChainTransfer(c, caller, transferId, recipient, amount) ==
    /\ LET transfer == bridgeTransfers[c][transferId]
       IN IF caller # "relayer"
          THEN Reverts(c, "complete", transferId, "AccessControl")
          ELSE IF transfer.status # "Initiated"
          THEN Reverts(c, "complete", transferId, "Invalid transfer state")
          ELSE IF transfer.recipient # recipient
          THEN Reverts(c, "complete", transferId, "Invalid recipient")
          ELSE PaysOut(c, "complete", transferId, "Completed", amount)
    /\ UNCHANGED <<blockTimestamp, bridgePaused>>
    /\ UNCHANGED <<ledgerVars, treeVars, relayVars, busVars, serviceVars>>

\* PolygonBridge only.
fastConfirmTransfer(caller, transferId) ==
    /\ LET c == "PolygonBridge"
           transfer == bridgeTransfers[c][transferId]
       IN IF caller # "relayer"
          THEN Reverts(c, "fastConfirm", transferId, "AccessControl")
          ELSE IF transfer.status # "Initiated"
          THEN Reverts(c, "fastConfirm", transferId, "Invalid state")
          ELSE PaysOut(c, "fastConfirm", transferId, "Confirmed", transfer.amount)
    /\ UNCHANGED <<blockTimestamp, bridgePaused>>
    /\ UNCHANGED <<ledgerVars, treeVars, relayVars, busVars, serviceVars>>

\* PolygonBridge only.
cancelTransfer(caller, transferId) ==
    /\ LET c == "PolygonBridge"
           transfer == bridgeTransfers[c][transferId]
       IN IF transfer.sender # caller
          THEN Reverts(c, "cancel", transferId, "Not sender")
          ELSE IF transfer.status # "Initiated"
          THEN Reverts(c, "cancel", transferId, "Cannot cancel")
          ELSE PaysOut(c, "cancel", transferId, "Cancelled",
                       transfer.amount + transfer.feePaid)
    /\ UNCHANGED <<blockTimestamp, bridgePaused>>
    /\ UNCHANGED <<ledgerVars, treeVars, relayVars, busVars, serviceVars>>

\* The next transaction runs in a later block.
NextBlock ==
    /\ blockTimestamp < MaxTime
    /\ blockTimestamp' = blockTimestamp + 1
    /\ UNCHANGED <<bridgeTransfers, bridgeBalance, bridgePaid, bridgeDeposits,
                   bridgePaused, bridgeResult>>
    /\ UNCHANGED <<ledgerVars, treeVars, relayVars, busVars, serviceVars>>

\* pause() and unpause(): onlyRole(DEFAULT_ADMIN_ROLE), then Pausable's
\* _pause (whenNotPaused) or _unpause (whenPaused).
pause(c, caller) ==
    /\ IF caller # BridgeAdmin
       THEN /\ Reverts(c, "pause", NoId, "AccessControl")
            /\ UNCHANGED bridgePaused
       ELSE IF bridgePaused[c]
       THEN /\ Reverts(c, "pause", NoId, "Pausable: paused")
            /\ UNCHANGED bridgePaused
       ELSE /\ bridgePaused' = [bridgePaused EXCEPT ![c] = TRUE]
            /\ bridgeResult' = [contract |-> c, op |-> "pause",
                                transferId |-> NoId, ok |-> TRUE]
            /\ UNCHANGED <<bridgeTransfers, bridgeBalance, bridgePaid,
                           bridgeDeposits>>
    /\ UNCHANGED blockTimestamp
    /\ UNCHANGED <<ledgerVars, treeVars, relayVars, busVars, serviceVars>>

unpause(c, caller) ==
    /\ IF caller # BridgeAdmin
       THEN /\ Reverts(c, "unpause", NoId, "AccessControl")
            /\ UNCHANGED bridgePaused
       ELSE IF ~bridgePaused[c]
       THEN /\ Reverts(c, "unpause", NoId, "Pausable: not paused")
            /\ UNCHANGED bridgePaused
       ELSE /\ bridgePaused' = [bridgePaused EXCEPT ![c] = FALSE]
            /\ bridgeResult' = [contract |-> c, op |-> "unpause",
                                transferId |-> NoId, ok |-> TRUE]
            /\ UNCHANGED <<bridgeTransfers, bridgeBalance, bridgePaid,
                           bridgeDeposits>>
    /\ UNCHANGED blockTimestamp
    /\ UNCHANGED <<ledgerVars, treeVars, relayVars, busVars, serviceVars>>

InitBridge ==
    /\ bridgeTransfers = [c \in Contracts |-> [i \in BridgeIds(c) |-> NoTransfer]]
    /\ bridgeBalance = [c \in Contracts |-> 0]
    /\ bridgePaid = [c \in Contracts |-> [i \in BridgeIds(c) |-> 0]]
    /\ bridgeDeposits = [c \in Contracts |-> 0]
    /\ blockTimestamp = 1
    /\ bridgePaused = [c \in Contracts |-> FALSE]
    /\ bridgeResult = NoCall

(***************************************************************************)
(* ConfidentialTransaction.verifyConfidentialTransfer (zkproof.ts).  The   *)
(* caller owns the Set of spent nullifiers and passes it by reference; an  *)
(* async call runs up to its await in one step and resumes, in the order   *)
(* of suspension, in a later one.                                          *)
(***************************************************************************)
CtNullifiers  == {"0x01", "0x02"}
CtCommitments == {"0x0c"}
\* A ZKProofOutput, by the lengths of pi_a, pi_b and pi_c.
CtProofs == [pi_a : 0..1, pi_b : 0..1, pi_c : 0..1]

\* ZKProofGenerator.verifyTransferProof
zkVerifyTransferProof(proof) ==
    proof.pi_a > 0 /\ proof.pi_b > 0 /\ proof.pi_c > 0

\* spentNullifiers.has(nullifier)
CtHasNever(spent, nullifier) == FALSE
CtHas(spent, nullifier) == nullifier \in spent

\* The call up to its first return or await.  wasSpent records, for the
\* properties, whether the nullifier was in the set when the call was made.
verifyConfidentialTransfer(proof, commitment, nullifier) ==
    /\ IF CtHas(ctSpentNullifiers, nullifier)
       THEN /\ ctResult' = [valid |-> FALSE, reason |-> "Double spend detected",
                            proof |-> proof, nullifier |-> nullifier,
                            wasSpent |-> nullifier \in ctSpentNullifiers]
            /\ UNCHANGED ctPending
       ELSE /\ Len(ctPending) < MaxPending
            /\ ctPending' = Append(ctPending,
                                   [proof |-> proof, nullifier |-> nullifier,
                                    wasSpent |-> nullifier \in ctSpentNullifiers])
            /\ UNCHANGED ctResult
    /\ UNCHANGED ctSpentNullifiers
    /\ UNCHANGED exceptCt

\* The oldest suspended call resumes after `await this.zk.verifyTransferProof`.
verifyConfidentialTransferResume ==
    /\ ctPending # <<>>
    /\ LET call == Head(ctPending)
           proofValid == zkVerifyTransferProof(call.proof)
       IN ctResult' =
              IF ~proofValid
              THEN [valid |-> FALSE, reason |-> "Invalid proof",
                    proof |-> call.proof, nullifier |-> call.nullifier,
                    wasSpent |-> call.wasSpent]
              ELSE [valid |-> TRUE, reason |-> "undefined",
                    proof |-> call.proof, nullifier |-> call.nullifier,
                    wasSpent |-> call.wasSpent]
    /\ ctPending' = Tail(ctPending)
    /\ UNCHANGED ctSpentNullifiers
    /\ UNCHANGED exceptCt

\* The caller records a nullifier as spent in its own set.
CallerAddsNullifier(nullifier) ==
    /\ nullifier \notin ctSpentNullifiers
    /\ ctSpentNullifiers' = ctSpentNullifiers \cup {nullifier}
    /\ UNCHANGED <<ctPending, ctResult>>
    /\ UNCHANGED exceptCt

InitCt ==
    /\ ctSpentNullifiers = {}
    /\ ctPending = <<>>
    /\ ctResult = NoCall

(***************************************************************************)
(* MultiSigVault.  An async method runs up to its first await in one step; *)
(* executeFn is the caller's function: it is started by `await             *)
(* executeFn()` and settles, resolved or rejected, in a later step.        *)
(* keccak256 is taken as collision-free: a txHash is the string hashed.    *)
(***************************************************************************)
\* MultiSigConfig: a 2-of-3 vault.
VaultConfig == [threshold |-> 2, signers |-> <<"0xaa", "0xbb", "0xcc">>]

\* String.prototype.toLowerCase on the addresses drawn here.
ToLowerCase(a) ==
    CASE a = "0xAA" -> "0xaa"
      [] a = "0xBB" -> "0xbb"
      [] a = "0xEE" -> "0xee"
      [] a = "0xAD" -> "0xad"
      [] a = "0xG2" -> "0xg2"
      [] OTHER -> a

\* The arguments of createTransaction, and the hash they give:
\* keccak256(toUtf8Bytes(txId + data)), the same for both.
TxInputs == {<<"tx1", "d">>, <<"tx", "1d">>}
VaultHash(txId, data) == txId \o data
TxHashes == {VaultHash(i[1], i[2]) : i \in TxInputs}

\* The signer argument of addSignature, and the signature argument: a
\* signature is the address ethers.verifyMessage recovers from it.
SignerInputs    == {"0xaa", "0xAA", "0xbb", "0xee"}
SignatureInputs == {"0xAA", "0xBB"}

\* Array.prototype.includes
Includes(seq, x) == \E i \in 1..Len(seq) : seq[i] = x

\* sigs.some(s => s.signer.toLowerCase() === signer.toLowerCase())
AlreadySignedNever(sigs, signer) == FALSE
AlreadySigned(sigs, signer) ==
    \E i \in 1..Len(sigs) : ToLowerCase(sigs[i].signer) = ToLowerCase(signer)

\* sigs.length < this.config.threshold
NotEnoughSignaturesNever(sigs) == FALSE
NotEnoughSignatures(sigs) == Len(sigs) < VaultConfig.threshold

\* verifySignatures (part_003): every stored signature recovers to its signer.
verifySignatures(txHash, sigs) ==
    \A i \in 1..Len(sigs) :
        ToLowerCase(sigs[i].signature) = ToLowerCase(sigs[i].signer)

VaultThrows(op, txHash, error) ==
    /\ vaultResult' = [op |-> op, txHash |-> txHash, ok |-> FALSE,
                       error |-> error]

createTransaction(txId, data) ==
    /\ LET hash == VaultHash(txId, data)
       IN /\ signatures' = [signatures EXCEPT ![hash] = <<>>]
          /\ vaultResult' = [op |-> "create", txHash |-> hash, ok |-> TRUE]
    /\ UNCHANGED <<vaultVerifies, executedTransactions, vaultPending, vaultRan>>
    /\ UNCHANGED exceptVault

addSignature(txHash, signer, signature) ==
    /\ IF ~Includes(VaultConfig.signers, ToLowerCase(signer))
       THEN /\ VaultThrows("addSignature", txHash, "Invalid signer")
            /\ UNCHANGED signatures
       ELSE IF AlreadySigned(signatures[txHash], signer)
       THEN /\ VaultThrows("addSignature", txHash, "Already signed")
            /\ UNCHANGED signatures
       ELSE LET sigs == Append(signatures[txHash],
                               [signer |-> ToLowerCase(signer),
                                signature |-> signature])
            IN /\ signatures' = [signatures EXCEPT ![txHash] = sigs]
               /\ vaultResult' = [op |-> "addSignature", txHash |-> txHash,
                                  ok |-> TRUE,
                                  value |-> Len(sigs) >= VaultConfig.threshold]
    /\ UNCHANGED <<vaultVerifies, executedTransactions, vaultPending, vaultRan>>
    /\ UNCHANGED exceptVault

\* `await executeFn()` starts executeFn.
StartsExecuteFn(txHash) ==
    vaultRan' = [vaultRan EXCEPT ![txHash] = Min(@ + 1, MaxCount)]

\* executeTransaction up to its first await.
executeTransaction(txHash, executor) ==
    /\ LET sigs == signatures[txHash]
       IN IF txHash \in executedTransactions
          THEN /\ VaultThrows("execute", txHash, "Transaction already executed")
               /\ UNCHANGED <<vaultPending, vaultRan>>
          ELSE IF NotEnoughSignatures(sigs)
          THEN /\ VaultThrows("execute", txHash, "Not enough signatures")
               /\ UNCHANGED <<vaultPending, vaultRan>>
          ELSE /\ Len(vaultPending) < MaxOverlap
               /\ IF vaultVerifies
                  THEN /\ vaultPending' =
                            Append(vaultPending,
                                   [txHash |-> txHash, at |-> "verifySignatures",
                                    sigs |-> sigs,
                                    validSignatures |->
                                        verifySignatures(txHash, sigs)])
                       /\ UNCHANGED vaultRan
                  ELSE /\ vaultPending' =
                            Append(vaultPending,
                                   [txHash |-> txHash, at |-> "executeFn",
                                    sigs |-> sigs,
                                    validSignatures |-> TRUE])
                       /\ StartsExecuteFn(txHash)
               /\ UNCHANGED vaultResult
    /\ UNCHANGED <<vaultVerifies, signatures, executedTransactions>>
    /\ UNCHANGED exceptVault

\* vaultPending without its i-th call.
WithoutCall(i) ==
    SubSeq(vaultPending, 1, i - 1) \o SubSeq(vaultPending, i + 1, Len(vaultPending))

\* part_003: the call resumes after `await this.verifySignatures(...)`; the
\* calls suspended there resume in the order of their suspension.
executeTransactionVerified(i) ==
    /\ vaultPending[i].at = "verifySignatures"
    /\ \A j \in 1..(i - 1) : vaultPending[j].at # "verifySignatures"
    /\ LET call == vaultPending[i]
       IN IF ~call.validSignatures
          THEN /\ VaultThrows("execute", call.txHash, "Invalid signatures")
               /\ vaultPending' = WithoutCall(i)
               /\ UNCHANGED vaultRan
          ELSE /\ vaultPending' = [vaultPending EXCEPT ![i].at = "executeFn"]
               /\ StartsExecuteFn(call.txHash)
               /\ UNCHANGED vaultResult
    /\ UNCHANGED <<vaultVerifies, signatures, executedTransactions>>
    /\ UNCHANGED exceptVault

\* executeFn settles and the call resumes after `await executeFn()`.
executeFnSettles(i, resolved) ==
    /\ vaultPending[i].at = "executeFn"
    /\ LET call == vaultPending[i]
       IN IF resolved
          THEN /\ executedTransactions' = executedTransactions \cup {call.txHash}
               /\ vaultResult' = [op |-> "execute", txHash |-> call.txHash,
                                  ok |-> TRUE]
          ELSE /\ VaultThrows("execute", call.txHash, "executeFn rejected")
               /\ UNCHANGED executedTransactions
    /\ vaultPending' = WithoutCall(i)
    /\ UNCHANGED <<vaultVerifies, signatures, vaultRan>>
    /\ UNCHANGED exceptVault

InitVault(verifies) ==
    /\ vaultVerifies = verifies
    /\ signatures = [h \in TxHashes |-> <<>>]
    /\ executedTransactions = {}
    /\ vaultPending = <<>>
    /\ vaultRan = [h \in TxHashes |-> 0]
    /\ vaultResult = NoCall

(***************************************************************************)
(* AuditLogger, constructed with maxLogs = 3 and encrypted = true (the     *)
(* default maxLogs is 10000).  log and query hold no await: each runs in   *)
(* one step.  An entry id is keccak256 of the user, Date.now() and         *)
(* Math.random(): a fresh value per call, here the number of the call.     *)
(***************************************************************************)
maxLogs == 3

AuditUsers     == {"0xaa", "0xAA", "0xbb"}
AuditActions   == {"transfer", "withdraw"}
AuditResources == {"vault"}
NoFilter       == "undefined"
QueryLimits    == {0, 1, 100}

\* hashAddress: keccak256(toUtf8Bytes(address.toLowerCase())).slice(0, 42)
hashAddress(address) == <<"keccak", ToLowerCase(address)>>

\* Array.prototype.slice(-n): the last n elements; slice(-0) is slice(0).
SliceLast(seq, n) ==
    IF n = 0 \/ n >= Len(seq) THEN seq
    ELSE SubSeq(seq, Len(seq) - n + 1, Len(seq))

\* The array after push and the truncation of lines 552-556.
LogsAfterPush(entry) ==
    LET pushed == Append(logs, entry)
    IN IF Len(pushed) > maxLogs THEN SliceLast(pushed, maxLogs) ELSE pushed

log(user, action, resource) ==
    /\ auditClock < MaxEntries
    /\ LET entry == [id |-> auditClock + 1, timestamp |-> auditClock + 1,
                     user |-> hashAddress(user), action |-> action,
                     resource |-> resource]
       IN /\ logs' = LogsAfterPush(entry)
          /\ auditIssued' = Append(auditIssued, entry)
    /\ auditClock' = auditClock + 1
    /\ UNCHANGED auditResult
    /\ UNCHANGED exceptAudit

query(user, action, limit) ==
    \* Array.prototype.filter is SelectSeq.
    /\ LET KeepUser(l) == l.user = hashAddress(user)
           KeepAction(l) == l.action = action
           byUser == IF user # NoFilter THEN SelectSeq(logs, KeepUser) ELSE logs
           byAction == IF action # NoFilter THEN SelectSeq(byUser, KeepAction)
                       ELSE byUser
       IN auditResult' = [op |-> "query", value |-> SliceLast(byAction, limit)]
    /\ UNCHANGED <<logs, auditClock, auditIssued>>
    /\ UNCHANGED exceptAudit

InitAudit ==
    /\ logs = <<>>
    /\ auditClock = 0
    /\ auditIssued = <<>>
    /\ auditResult = NoCall

(***************************************************************************)
(* ComplianceMonitor (compliance.ts).  Amounts are in units of 10^15 wei.  *)
(* evaluateTransfer is modelled with the rule set unchanged while the call *)
(* runs; the compliance record of the wallet is what getComplianceInfo     *)
(* returns (the record of the eIDAS contract, or the default record).      *)
(***************************************************************************)
\* BigNumber.from(1_000_000).mul(BigNumber.from(10).pow(18)), in units of
\* 10^15 wei.
HighValueThreshold == 1000000000

RestrictedJurisdictions == {"KP", "IR", "SY", "CU", "BY"}

\* initializeDefaultRules, in the order of the addRule calls.
DefaultRuleIds ==
    <<"HIGH_VALUE_UNVERIFIED", "RESTRICTED_JURISDICTION", "KYC_REQUIRED",
      "AML_SCREENING">>

RuleOf(id) ==
    CASE id = "HIGH_VALUE_UNVERIFIED" ->
           [id |-> id, type |-> "transaction", operator |-> "gt",
            value |-> HighValueThreshold, action |-> "deny",
            message |-> "High value transfers require eIDAS compliance"]
      [] id = "RESTRICTED_JURISDICTION" ->
           [id |-> id, type |-> "jurisdiction", operator |-> "in",
            value |-> RestrictedJurisdictions, action |-> "deny",
            message |->
                "Transactions from restricted jurisdictions are not allowed"]
      [] id = "KYC_REQUIRED" ->
           [id |-> id, type |-> "kyc", operator |-> "eq", value |-> FALSE,
            action |-> "deny", message |-> "KYC verification required"]
      [] id = "AML_SCREENING" ->
           [id |-> id, type |-> "aml", operator |-> "eq", value |-> FALSE,
            action |-> "review",
            message |-> "AML screening required before processing"]

MonitorWallets == {"0x742d"}
\* 1e15 and 2e18 wei (services.test.ts), the threshold, and one above it.
MonitorAmounts ==
    {1, 2000, HighValueThreshold, HighValueThreshold + 1}
ComplianceInfos ==
    [kycVerified : BOOLEAN, amlScreened : BOOLEAN,
     jurisdiction : {"DE", "KP", "UNKNOWN"}]

\* evaluateRule: the value of `passed`.
evaluateRule(rule, amount, complianceInfo) ==
    CASE rule.type = "transaction" ->
           (CASE rule.operator = "gt" -> amount > rule.value
              [] rule.operator = "lt" -> amount < rule.value
              [] rule.operator = "gte" -> amount >= rule.value
              [] rule.operator = "lte" -> amount <= rule.value
              [] OTHER -> TRUE)
      [] rule.type = "kyc" -> complianceInfo.kycVerified = rule.value
      [] rule.type = "aml" -> complianceInfo.amlScreened = rule.value
      [] rule.type = "jurisdiction" -> complianceInfo.jurisdiction \in rule.value
      [] OTHER -> TRUE

\* The loop of evaluateTransfer from the i-th rule on: the rules that did
\* not pass, up to and including the first one whose action is deny.
RECURSIVE FailedRules(_, _, _)
FailedRules(i, amount, complianceInfo) ==
    IF i > Len(rules) THEN <<>>
    ELSE LET rule == RuleOf(rules[i])
         IN IF evaluateRule(rule, amount, complianceInfo)
            THEN FailedRules(i + 1, amount, complianceInfo)
            ELSE IF rule.action = "deny" THEN <<rule.id>>
            ELSE <<rule.id>> \o FailedRules(i + 1, amount, complianceInfo)

\* Map.set
MapSet(map, key, value) ==
    [k \in DOMAIN map \cup {key} |-> IF k = key THEN value ELSE map[k]]

\* createAlert for each failed rule: the id is keccak256(wallet-Date.now()).
RECURSIVE AlertsAfter(_, _, _, _)
AlertsAfter(map, failed, wallet, now) ==
    IF failed = <<>> THEN map
    ELSE AlertsAfter(MapSet(map, <<wallet, now>>, Head(failed)), Tail(failed),
                     wallet, now)

evaluateTransfer(wallet, amount, chainId, complianceInfo, now) ==
    /\ Len(auditLog) < MaxEvaluations
    /\ LET failed == FailedRules(1, amount, complianceInfo)
           denied == failed # <<>> /\ RuleOf(failed[Len(failed)]).action = "deny"
           allowed == ~denied
           reason == IF denied THEN RuleOf(failed[Len(failed)]).message
                     ELSE "All compliance checks passed"
       IN /\ alerts' = AlertsAfter(alerts, failed, wallet, now)
          /\ auditLog' = Append(auditLog,
                                [action |-> "TRANSFER_EVALUATION",
                                 wallet |-> wallet, amount |-> amount,
                                 allowed |-> allowed, reason |-> reason,
                                 alertsCount |-> Len(failed)])
          /\ monitorResult' = [op |-> "evaluateTransfer", wallet |-> wallet,
                               amount |-> amount, rules |-> rules,
                               allowed |-> allowed, reason |-> reason,
                               alerts |-> failed]
    /\ UNCHANGED rules
    /\ UNCHANGED exceptMonitor

\* addRule: Map.set keeps the place of a key that is present and appends
\* one that is not.
addRule(id) ==
    /\ rules' = IF Includes(rules, id) THEN rules ELSE Append(rules, id)
    /\ monitorResult' = [op |-> "addRule", id |-> id]
    /\ UNCHANGED <<alerts, auditLog>>
    /\ UNCHANGED exceptMonitor

removeRule(ruleId) ==
    /\ LET Other(id) == id # ruleId
       IN rules' = SelectSeq(rules, Other)
    /\ monitorResult' = [op |-> "removeRule", id |-> ruleId]
    /\ UNCHANGED <<alerts, auditLog>>
    /\ UNCHANGED exceptMonitor

InitMonitor ==
    /\ rules = DefaultRuleIds
    /\ alerts = <<>>
    /\ auditLog = <<>>
    /\ monitorResult = NoCall

(***************************************************************************)
(* RateLimiter (part_003; the copy in rivicq-enterprise.ts has no cooldown *)
(* test).  Time is in minutes.  The methods hold no await: each call runs  *)
(* in one step.                                                            *)
(***************************************************************************)
hourMs == 60
dayMs  == 1440

\* The RateLimitConfig the limiter is constructed with.
RateConfig ==
    [maxTransactionsPerHour |-> 3, maxVolumePerHour |-> 10,
     maxTransactionsPerDay |-> 4, maxVolumePerDay |-> 20,
     cooldownPeriod |-> 1]

LimiterAddresses == {"0xaa", "0xbb"}
LimiterAmounts   == {4, 11}
\* Date.now() when the limiter is constructed, and at the calls: the start,
\* a minute later, an hour later, and the following days.
StartNow == 2000
LimiterTimes ==
    {StartNow, StartNow + 1, StartNow + hourMs}
        \cup {StartNow + d * dayMs : d \in 1..MaxWaits}

NoRecord == [txCount |-> -1]

\* resetIfNeeded: the record of the address afterwards.
resetIfNeeded(record, now) ==
    IF record = NoRecord THEN record
    ELSE LET daily == IF now - record.lastResetTime >= dayMs
                      THEN [record EXCEPT !.dailyTxCount = 0,
                                          !.dailyVolume = 0,
                                          !.lastResetTime = now]
                      ELSE record
         IN IF now - daily.lastTxTime >= hourMs
            THEN [daily EXCEPT !.txCount = 0, !.volume = 0]
            ELSE daily

createRecord(now) ==
    [txCount |-> 0, volume |-> 0, lastTxTime |-> 0, dailyTxCount |-> 0,
     dailyVolume |-> 0, lastResetTime |-> now]

\* this.records.get(address) || this.createRecord()
RecordOrNew(record, now) == IF record = NoRecord THEN createRecord(now) ELSE record

checkLimit(address, amount) ==
    /\ LET reset == resetIfNeeded(records[address], limiterNow)
           record == RecordOrNew(reset, limiterNow)
           reason ==
               IF record.txCount >= RateConfig.maxTransactionsPerHour
               THEN "Hourly transaction limit exceeded"
               ELSE IF record.volume >= RateConfig.maxVolumePerHour
               THEN "Hourly volume limit exceeded"
               ELSE IF record.dailyTxCount >= RateConfig.maxTransactionsPerDay
               THEN "Daily transaction limit exceeded"
               ELSE IF record.dailyVolume >= RateConfig.maxVolumePerDay
               THEN "Daily volume limit exceeded"
               ELSE IF limiterNow - record.lastTxTime < RateConfig.cooldownPeriod
               THEN "Cooldown period active"
               ELSE "undefined"
       IN /\ records' = [records EXCEPT ![address] = reset]
          /\ limiterResult' = [op |-> "checkLimit", address |-> address,
                               amount |-> amount,
                               allowed |-> reason = "undefined",
                               reason |-> reason]
    /\ UNCHANGED limiterNow
    /\ UNCHANGED exceptLimiter

recordTransaction(address, amount) ==
    /\ LET reset == resetIfNeeded(records[address], limiterNow)
           record == RecordOrNew(reset, limiterNow)
       IN records' =
              [records EXCEPT ![address] =
                  [record EXCEPT !.txCount = @ + 1,
                                 !.volume = @ + amount,
                                 !.dailyTxCount = @ + 1,
                                 !.dailyVolume = @ + amount,
                                 !.lastTxTime = limiterNow]]
    /\ limiterResult' = [op |-> "recordTransaction", address |-> address,
                         amount |-> amount]
    /\ UNCHANGED limiterNow
    /\ UNCHANGED exceptLimiter

\* Time passes between two calls.
LimiterWait(now) ==
    /\ now > limiterNow
    /\ limiterNow' = now
    /\ UNCHANGED <<records, limiterResult>>
    /\ UNCHANGED exceptLimiter

InitLimiter ==
    /\ records = [a \in LimiterAddresses |-> NoRecord]
    /\ limiterNow = StartNow
    /\ limiterResult = NoCall

(***************************************************************************)
(* TimelockVault (part_003; the copy of rivicq-enterprise.ts has no        *)
(* cancelSchedule), constructed as new TimelockVault(1, 2, "0xad").  Times *)
(* are in seconds: Date.now() is timelockNow * 1000.  A schedule id is     *)
(* keccak256 of the recipient and Date.now(), taken as collision-free: the *)
(* pair of the two.  releaseFn is the caller's function: it is started by  *)
(* `await releaseFn()` and settles, resolved or rejected, in a later step. *)
(***************************************************************************)
minDelay == 1
maxDelay == 2
TimelockAdmin == "0xad"

TimelockRecipients == {"r1"}
TimelockCallers == {"0xAD", "0xee"}
Delays == {0, 1, 2, 3}
ScheduleIds == {<<recipient, t>> : recipient \in TimelockRecipients,
                                   t \in 0..MaxClock}
NoSchedule == [id |-> "none"]

TimelockThrows(op, scheduleId, error) ==
    timelockResult' = [op |-> op, id |-> scheduleId, ok |-> FALSE,
                       error |-> error]

\* createSchedule holds no await.  Two schedules of one recipient are
\* created at different times.
createSchedule(recipient, amount, delay) ==
    /\ schedules[<<recipient, timelockNow>>] = NoSchedule
    /\ IF delay < minDelay \/ delay > maxDelay
       THEN /\ TimelockThrows("create", <<recipient, timelockNow>>,
                              "Invalid delay")
            /\ UNCHANGED schedules
       ELSE LET schedule == [id |-> <<recipient, timelockNow>>,
                             recipient |-> recipient, amount |-> amount,
                             releaseTime |-> timelockNow + delay,
                             createdAt |-> timelockNow,
                             canceled |-> FALSE, released |-> FALSE]
            IN /\ schedules' = [schedules EXCEPT ![schedule.id] = schedule]
               /\ timelockResult' = [op |-> "create", id |-> schedule.id,
                                     ok |-> TRUE]
    /\ UNCHANGED <<timelockNow, releasing>>
    /\ UNCHANGED exceptTimelock

\* cancelSchedule holds no await.
cancelSchedule(scheduleId, caller) ==
    /\ IF ToLowerCase(caller) # ToLowerCase(TimelockAdmin)
       THEN /\ TimelockThrows("cancel", scheduleId, "Unauthorized")
            /\ UNCHANGED schedules
       ELSE IF schedules[scheduleId] = NoSchedule
       THEN /\ TimelockThrows("cancel", scheduleId, "Schedule not found")
            /\ UNCHANGED schedules
       ELSE /\ schedules' = [schedules EXCEPT ![scheduleId].canceled = TRUE]
            /\ timelockResult' = [op |-> "cancel", id |-> scheduleId,
                                  ok |-> TRUE]
    /\ UNCHANGED <<timelockNow, releasing>>
    /\ UNCHANGED exceptTimelock

\* executeSchedule up to `await releaseFn()`.
executeSchedule(scheduleId) ==
    /\ IF schedules[scheduleId] = NoSchedule
       THEN /\ TimelockThrows("execute", scheduleId, "Schedule not found")
            /\ UNCHANGED releasing
       ELSE IF schedules[scheduleId].canceled
       THEN /\ TimelockThrows("execute", scheduleId, "Schedule canceled")
            /\ UNCHANGED releasing
       ELSE IF schedules[scheduleId].released
       THEN /\ TimelockThrows("execute", scheduleId, "Already released")
            /\ UNCHANGED releasing
       ELSE IF timelockNow < schedules[scheduleId].releaseTime
       THEN /\ TimelockThrows("execute", scheduleId, "Too early")
            /\ UNCHANGED releasing
       ELSE /\ Len(releasing) < MaxReleasing
            /\ releasing' = Append(releasing, scheduleId)
            /\ UNCHANGED timelockResult
    /\ UNCHANGED <<schedules, timelockNow>>
    /\ UNCHANGED exceptTimelock

\* releasing without its i-th call.
WithoutRelease(i) ==
    SubSeq(releasing, 1, i - 1) \o SubSeq(releasing, i + 1, Len(releasing))

\* releaseFn settles and the call resumes after `await releaseFn()`.
releaseFnSettles(i, resolved) ==
    /\ LET scheduleId == releasing[i]
       IN IF resolved
          THEN /\ schedules' = [schedules EXCEPT ![scheduleId].released = TRUE]
               /\ timelockResult' = [op |-> "execute", id |-> scheduleId,
                                     ok |-> TRUE,
                                     amount |-> schedules[scheduleId].amount]
          ELSE /\ TimelockThrows("execute", scheduleId, "releaseFn rejected")
               /\ UNCHANGED schedules
    /\ releasing' = WithoutRelease(i)
    /\ UNCHANGED timelockNow
    /\ UNCHANGED exceptTimelock

\* Time passes.
TimelockTick ==
    /\ timelockNow < MaxClock
    /\ timelockNow' = timelockNow + 1
    /\ UNCHANGED <<schedules, releasing, timelockResult>>
    /\ UNCHANGED exceptTimelock

InitTimelock ==
    /\ schedules = [i \in ScheduleIds |-> NoSchedule]
    /\ timelockNow = 0
    /\ releasing = << >>
    /\ timelockResult = NoCall

(***************************************************************************)
(* AccessControl with the roles of initializeDefaultRoles.  No method      *)
(* holds an await: each call is one step.  A user object is held by        *)
(* reference in the map, so a change of its fields is a change of the map  *)
(* entry.  The optional `attributes` of grantRole are not given.           *)
(***************************************************************************)
DefaultRoles ==
    [admin    |-> << [resource |-> "*", actions |-> {"*"}] >>,
     operator |-> << [resource |-> "transfer", actions |-> {"create", "execute"}],
                     [resource |-> "withdraw", actions |-> {"create"}],
                     [resource |-> "view", actions |-> {"*"}] >>,
     user     |-> << [resource |-> "transfer", actions |-> {"create"}],
                     [resource |-> "view", actions |-> {"own"}] >>,
     auditor  |-> << [resource |-> "view", actions |-> {"*"}],
                     [resource |-> "audit", actions |-> {"read"}] >>]

\* The arguments the calls are made with: "ghost" is a role no addRole named.
AccessAddresses == {"0xaa", "0xAA", "0xbb"}
AccessUsers     == {ToLowerCase(a) : a \in AccessAddresses}
RoleNames       == {"user", "auditor", "ghost"}
Resources       == {"transfer", "view", "audit"}
ResourceActions == {"create", "own", "read"}

NoUser == [address |-> "none"]

\* this.userRoles.get(address.toLowerCase())
UserOf(ur, address) == ur[ToLowerCase(address)]

\* user.roles.filter(r => r !== roleName)
RolesWithout(userRolesOf, roleName) ==
    LET Keep(r) == r # roleName IN SelectSeq(userRolesOf, Keep)

\* The two nested loops of hasPermission over the roles of an active user.
RolesPermit(userRolesOf, resource, action) ==
    \E i \in 1..Len(userRolesOf) :
        /\ userRolesOf[i] \in DOMAIN DefaultRoles
        /\ \E j \in 1..Len(DefaultRoles[userRolesOf[i]]) :
              LET perm == DefaultRoles[userRolesOf[i]][j]
              IN /\ perm.resource = "*" \/ perm.resource = resource
                 /\ "*" \in perm.actions \/ action \in perm.actions

\* hasPermission(address, resource, action) on the map ur
HasPermission(ur, address, resource, action) ==
    LET user == UserOf(ur, address)
    IN IF user = NoUser THEN FALSE
       ELSE IF ~user.active THEN FALSE
       ELSE RolesPermit(user.roles, resource, action)

\* grantRole leaves the fields of an existing user other than roles alone.
grantRole(address, roleName) ==
    /\ LET found == UserOf(userRoles, address)
           user == IF found = NoUser
                   THEN [address |-> ToLowerCase(address), roles |-> << >>,
                         active |-> TRUE]
                   ELSE found
           roles == IF Includes(user.roles, roleName) THEN user.roles
                    ELSE Append(user.roles, roleName)
       IN userRoles' = [userRoles EXCEPT
                           ![ToLowerCase(address)] = [user EXCEPT !.roles = roles]]
    /\ UNCHANGED accessResult
    /\ UNCHANGED exceptAccess

revokeRole(address, roleName) ==
    /\ LET user == UserOf(userRoles, address)
       IN IF user = NoUser THEN UNCHANGED userRoles
          ELSE LET roles == RolesWithout(user.roles, roleName)
               IN userRoles' = [userRoles EXCEPT
                     ![ToLowerCase(address)] =
                         [user EXCEPT !.roles = roles,
                                      !.active = IF Len(roles) = 0 THEN FALSE
                                                 ELSE user.active]]
    /\ UNCHANGED accessResult
    /\ UNCHANGED exceptAccess

deactivateUser(address) ==
    /\ LET user == UserOf(userRoles, address)
       IN IF user = NoUser THEN UNCHANGED userRoles
          ELSE userRoles' = [userRoles EXCEPT
                                ![ToLowerCase(address)].active = FALSE]
    /\ UNCHANGED accessResult
    /\ UNCHANGED exceptAccess

hasPermission(address, resource, action) ==
    /\ accessResult' = [op |-> "hasPermission", address |-> address,
                        resource |-> resource, action |-> action,
                        value |-> HasPermission(userRoles, address, resource,
                                                action)]
    /\ UNCHANGED userRoles
    /\ UNCHANGED exceptAccess

InitAccess ==
    /\ userRoles = [a \in AccessUsers |-> NoUser]
    /\ accessResult = NoCall

(***************************************************************************)
(* SocialRecoveryManager with two guardians, threshold 2 and a recovery    *)
(* delay of one second.  No method holds an await: each call is one step.  *)
(* Times are in seconds.  A request id is keccak256 of lostAccount +       *)
(* newOwner + Date.now(), taken as collision-free on the fixed-length      *)
(* addresses: the triple of the three.                                     *)
(***************************************************************************)
RecoveryConfig ==
    [guardians |-> <<"0xg1", "0xG2">>, threshold |-> 2, recoveryDelay |-> 1]

\* The keys of this.guardians after the constructor.
GuardianKeys ==
    {ToLowerCase(RecoveryConfig.guardians[i]) :
        i \in 1..Len(RecoveryConfig.guardians)}

RecoveryAccounts  == {"0xaa", "0xbb"}
NewOwners         == {"0xnn"}
GuardianInputs    == {"0xg1", "0xG2", "0xee"}
RequestIds ==
    {<<lostAccount, newOwner, t>> : lostAccount \in RecoveryAccounts,
        newOwner \in NewOwners, t \in 0..MaxRecoveryClock}
NoRequest == [newOwner |-> "none"]

RecoveryThrows(op, requestId, error) ==
    recoveryResult' = [op |-> op, requestId |-> requestId, ok |-> FALSE,
                       error |-> error]

initiateRecovery(lostAccount, newOwner, guardian) ==
    /\ LET requestId == <<lostAccount, newOwner, recoveryNow>>
       IN IF ToLowerCase(guardian) \notin GuardianKeys
          THEN /\ RecoveryThrows("initiate", requestId, "Invalid guardian")
               /\ UNCHANGED <<recoveryRequests, lockedAccounts>>
          ELSE /\ recoveryRequests' =
                    [recoveryRequests EXCEPT ![requestId] =
                        [newOwner |-> newOwner,
                         approvals |-> <<ToLowerCase(guardian)>>,
                         deadline |-> recoveryNow + RecoveryConfig.recoveryDelay]]
               /\ lockedAccounts' = lockedAccounts \cup {ToLowerCase(lostAccount)}
               /\ recoveryResult' = [op |-> "initiate", requestId |-> requestId,
                                     ok |-> TRUE]
    /\ UNCHANGED recoveryNow
    /\ UNCHANGED exceptRecovery

approveRecovery(requestId, guardian) ==
    /\ LET request == recoveryRequests[requestId]
       IN IF request = NoRequest
          THEN /\ RecoveryThrows("approve", requestId,
                                 "Recovery request not found")
               /\ UNCHANGED recoveryRequests
          ELSE IF ToLowerCase(guardian) \notin GuardianKeys
          THEN /\ RecoveryThrows("approve", requestId, "Invalid guardian")
               /\ UNCHANGED recoveryRequests
          ELSE LET approvals ==
                       IF Includes(request.approvals, ToLowerCase(guardian))
                       THEN request.approvals
                       ELSE Append(request.approvals, ToLowerCase(guardian))
               IN /\ recoveryRequests' =
                       [recoveryRequests EXCEPT ![requestId].approvals = approvals]
                  /\ recoveryResult' =
                       [op |-> "approve", requestId |-> requestId, ok |-> TRUE,
                        value |-> Len(approvals) >= RecoveryConfig.threshold]
    /\ UNCHANGED <<lockedAccounts, recoveryNow>>
    /\ UNCHANGED exceptRecovery

executeRecovery(requestId, currentOwner) ==
    /\ LET request == recoveryRequests[requestId]
       IN IF request = NoRequest
          THEN /\ RecoveryThrows("execute", requestId,
                                 "Recovery request not found")
               /\ UNCHANGED <<recoveryRequests, lockedAccounts>>
          ELSE IF recoveryNow > request.deadline
          THEN /\ RecoveryThrows("execute", requestId,
                                 "Recovery request expired")
               /\ UNCHANGED <<recoveryRequests, lockedAccounts>>
          ELSE IF Len(request.approvals) < RecoveryConfig.threshold
          THEN /\ RecoveryThrows("execute", requestId,
                                 "Not enough guardian approvals")
               /\ UNCHANGED <<recoveryRequests, lockedAccounts>>
          ELSE /\ lockedAccounts' = lockedAccounts \ {ToLowerCase(currentOwner)}
               /\ recoveryRequests' =
                    [recoveryRequests EXCEPT ![requestId] = NoRequest]
               /\ recoveryResult' = [op |-> "execute", requestId |-> requestId,
                                     ok |-> TRUE, newOwner |-> request.newOwner]
    /\ UNCHANGED recoveryNow
    /\ UNCHANGED exceptRecovery

\* isAccountLocked(address) on the set locked
IsAccountLocked(locked, address) == ToLowerCase(address) \in locked

isAccountLocked(address) ==
    /\ recoveryResult' = [op |-> "isAccountLocked", address |-> address,
                          ok |-> TRUE,
                          value |-> IsAccountLocked(lockedAccounts, address)]
    /\ UNCHANGED <<recoveryRequests, lockedAccounts, recoveryNow>>
    /\ UNCHANGED exceptRecovery

\* Time passes.
RecoveryTick ==
    /\ recoveryNow < MaxRecoveryClock
    /\ recoveryNow' = recoveryNow + 1
    /\ UNCHANGED <<recoveryRequests, lockedAccounts, recoveryResult>>
    /\ UNCHANGED exceptRecovery

InitRecovery ==
    /\ recoveryRequests = [i \in RequestIds |-> NoRequest]
    /\ lockedAccounts = {}
    /\ recoveryNow = 0
    /\ recoveryResult = NoCall

InitProtocol ==
    InitLedger /\ TreeConstructed(1) /\ InitRelayer /\ InitBus /\ InitBridge

InitNewer == InitTimelock /\ InitAccess /\ InitRecovery

InitServices ==
    /\ InitCt /\ InitVault(TRUE) /\ InitAudit /\ InitMonitor /\ InitLimiter
    /\ InitNewer

Init == InitProtocol /\ InitServices

\* Either copy of MultiSigVault.
InitAnyVault ==
    /\ InitProtocol
    /\ InitCt
    /\ \E verifies \in BOOLEAN : InitVault(verifies)
    /\ InitAudit
    /\ InitMonitor
    /\ InitLimiter
    /\ InitNewer

\* A tree of any depth up to MaxDepth.
InitTree ==
    /\ InitLedger /\ InitRelayer /\ InitBus /\ InitBridge
    /\ \E d \in 1..MaxDepth : TreeConstructed(d)
    /\ InitServices

\* A RivicQCore and a ShieldedPool are separate objects that share no state:
\* a behaviour of SpecLedger drives one of the two.
CoreUntouched == coreResult = NoCall
PoolUntouched == poolResult = NoCall

NextLedger ==
    \/ \E p \in Proofs, n \in Nullifiers, b \in Blocks :
          PoolUntouched /\ VerifyTransferProof(p, n, b)
    \/ \E a \in Amounts, s \in Secrets, t \in Salts :
          CoreUntouched /\ Deposit(a, s, t)
    \/ \E c \in Commitments, p \in Proofs :
          CoreUntouched /\ Withdraw(c, p)

SpecLedger == Init /\ [][NextLedger]_vars

NextTree ==
    \/ \E leaf \in TreeLeaves : Insert(leaf)
    \/ UpdateTreeResume
    \/ \E index \in 0..Pow2(MaxDepth) : getProof(index)

SpecTree == InitTree /\ [][NextTree]_vars

NextRelayer ==
    \/ \E message \in Messages : submitCrossChainMessage(message)
    \/ \E confirmation \in Confirmations : addConfirmation(confirmation)
    \/ start
    \/ stop
    \/ \E p \in 1..MaxLoops : PollFetched(p)
    \/ \E p \in 1..MaxLoops : PollRetry(p)
    \/ \E p \in 1..MaxLoops : PollRelayOk(p)
    \/ \E p \in 1..MaxLoops : PollRelayFail(p)
    \/ \E p \in 1..MaxLoops : PollWake(p)
    \/ \E m \in 1..MaxLoops : MonitorRelayOk(m)
    \/ \E m \in 1..MaxLoops : MonitorRelayFail(m)
    \/ \E m \in 1..MaxLoops : MonitorWake(m)

SpecRelayer == Init /\ [][NextRelayer]_vars

\* Scheduling of the loops: a loop that can take its next step takes it (the
\* event loop runs every continuation and every timer that is due), and an
\* adapter call returns, with success or with failure.
FairLoops ==
    /\ \A p \in 1..MaxLoops :
          /\ WF_vars(PollFetched(p))
          /\ WF_vars(PollRetry(p))
          /\ WF_vars(PollWake(p))
          /\ WF_vars(PollRelayOk(p) \/ PollRelayFail(p))
    /\ \A m \in 1..MaxLoops :
          /\ WF_vars(MonitorWake(m))
          /\ WF_vars(MonitorRelayOk(m) \/ MonitorRelayFail(m))

\* No loop of the service is alive.
LoopsTerminated ==
    /\ \A p \in 1..MaxLoops : pollers[p].pc = "idle"
    /\ \A m \in 1..MaxLoops : monitors[m].pc = "idle"

\* A service on which start() is called only when no loop is alive: one
\* pollMessages loop and one monitorConfirmations loop at a time.
NextSingleStart ==
    \/ \E message \in Messages : submitCrossChainMessage(message)
    \/ \E confirmation \in Confirmations : addConfirmation(confirmation)
    \/ LoopsTerminated /\ start
    \/ stop
    \/ PollFetched(1)
    \/ PollRetry(1)
    \/ PollRelayOk(1)
    \/ PollRelayFail(1)
    \/ PollWake(1)
    \/ MonitorRelayOk(1)
    \/ MonitorRelayFail(1)
    \/ MonitorWake(1)

SpecSingleStartLive == Init /\ [][NextSingleStart]_vars /\ FairLoops

\* The adapter fails only finitely often in a row: a dispatch that is tried
\* again and again succeeds at some time.
SpecSingleStartRecovers ==
    SpecSingleStartLive /\ \A p \in 1..MaxLoops : SF_vars(PollRelayOk(p))

NextBus ==
    \/ \E message \in BusMessages : publishMessage(message)
    \/ \E hash \in BusKeys : getMessage(hash)
    \/ \E hash \in BusHashes, message \in BusMessages : verifyMessage(hash, message)

SpecBus == Init /\ [][NextBus]_vars

\* The two contracts are deployed on different chains and share no state: a
\* behaviour of SpecBridge drives one of the two.
BridgeInUse(c) ==
    IF bridgeResult = NoCall THEN TRUE ELSE bridgeResult.contract = c

NextBridge ==
    \/ \E sender \in BridgeSenders, recipient \in InitiateRecipients,
          amount \in InitiateAmounts, token \in BridgeTokens :
          \E destinationChainId \in DestinationIds("CrossChainBridge") :
              /\ BridgeInUse("CrossChainBridge")
              /\ initiateCrossChainTransfer("CrossChainBridge", sender,
                                            recipient, amount,
                                            destinationChainId, token, FALSE)
    \/ \E sender \in BridgeSenders, recipient \in InitiateRecipients,
          amount \in InitiateAmounts, token \in BridgeTokens,
          useFastConfirmation \in BOOLEAN :
          \E destinationChainId \in DestinationIds("PolygonBridge") :
              /\ BridgeInUse("PolygonBridge")
              /\ initiateCrossChainTransfer("PolygonBridge", sender,
                                            recipient, amount,
                                            destinationChainId, token,
                                            useFastConfirmation)
    \/ \E c \in Contracts, caller \in AdminCallers :
          BridgeInUse(c) /\ pause(c, caller)
    \/ \E c \in Contracts, caller \in AdminCallers :
          BridgeInUse(c) /\ unpause(c, caller)
    \/ \E c \in Contracts, caller \in BridgeCallers,
          recipient \in BridgeRecipients, amount \in CompleteAmounts :
          \E transferId \in BridgeIds(c) :
              /\ BridgeInUse(c)
              /\ completeCrossChainTransfer(c, caller, transferId, recipient,
                                            amount)
    \/ \E caller \in BridgeCallers, transferId \in BridgeIds("PolygonBridge") :
          /\ BridgeInUse("PolygonBridge")
          /\ fastConfirmTransfer(caller, transferId)
    \/ \E caller \in BridgeCallers, transferId \in BridgeIds("PolygonBridge") :
          /\ BridgeInUse("PolygonBridge")
          /\ cancelTransfer(caller, transferId)
    \/ NextBlock

SpecBridge == Init /\ [][NextBridge]_vars

NextCt ==
    \/ \E proof \in CtProofs, commitment \in CtCommitments,
          nullifier \in CtNullifiers :
          verifyConfidentialTransfer(proof, commitment, nullifier)
    \/ verifyConfidentialTransferResume
    \/ \E nullifier \in CtNullifiers : CallerAddsNullifier(nullifier)

SpecCt == Init /\ [][NextCt]_vars

NextVault ==
    \/ \E i \in TxInputs : createTransaction(i[1], i[2])
    \/ \E txHash \in TxHashes, signer \in SignerInputs,
          signature \in SignatureInputs :
          addSignature(txHash, signer, signature)
    \/ \E txHash \in TxHashes : executeTransaction(txHash, "executor")
    \/ \E i \in 1..MaxOverlap :
          i <= Len(vaultPending) /\ executeTransactionVerified(i)
    \/ \E i \in 1..MaxOverlap, resolved \in BOOLEAN :
          i <= Len(vaultPending) /\ executeFnSettles(i, resolved)

SpecVault == InitAnyVault /\ [][NextVault]_vars

NextAudit ==
    \/ \E user \in AuditUsers, action \in AuditActions,
          resource \in AuditResources : log(user, action, resource)
    \/ \E user \in AuditUsers \cup {NoFilter},
          action \in AuditActions \cup {NoFilter}, limit \in QueryLimits :
          query(user, action, limit)

SpecAudit == Init /\ [][NextAudit]_vars

NextMonitor ==
    \/ \E wallet \in MonitorWallets, amount \in MonitorAmounts,
          complianceInfo \in ComplianceInfos, now \in 1..MaxNow :
          evaluateTransfer(wallet, amount, 1, complianceInfo, now)
    \/ \E id \in {"HIGH_VALUE_UNVERIFIED", "KYC_REQUIRED"} : addRule(id)
    \/ \E id \in {"HIGH_VALUE_UNVERIFIED", "KYC_REQUIRED"} : removeRule(id)

SpecMonitor == Init /\ [][NextMonitor]_vars

\* The caller's protocol: recordTransaction(address, amount) follows a
\* checkLimit(address, amount) that returned allowed.
CheckedAndAllowed(address, amount) ==
    /\ limiterResult # NoCall
    /\ limiterResult.op = "checkLimit"
    /\ limiterResult.address = address
    /\ limiterResult.amount = amount
    /\ limiterResult.allowed

NextLimiter ==
    \/ \E address \in LimiterAddresses, amount \in LimiterAmounts :
          checkLimit(address, amount)
    \/ \E address \in LimiterAddresses, amount \in LimiterAmounts :
          CheckedAndAllowed(address, amount) /\ recordTransaction(address, amount)
    \/ \E now \in LimiterTimes : LimiterWait(now)

SpecLimiter == Init /\ [][NextLimiter]_vars

NextTimelock ==
    \/ \E recipient \in TimelockRecipients, delay \in Delays :
          createSchedule(recipient, 5, delay)
    \/ \E scheduleId \in ScheduleIds, caller \in TimelockCallers :
          cancelSchedule(scheduleId, caller)
    \/ \E scheduleId \in ScheduleIds : executeSchedule(scheduleId)
    \/ \E i \in 1..MaxReleasing, resolved \in BOOLEAN :
          i <= Len(releasing) /\ releaseFnSettles(i, resolved)
    \/ TimelockTick

SpecTimelock == Init /\ [][NextTimelock]_vars

NextAccess ==
    \/ \E address \in AccessAddresses, roleName \in RoleNames :
          grantRole(address, roleName)
    \/ \E address \in AccessAddresses, roleName \in RoleNames :
          revokeRole(address, roleName)
    \/ \E address \in AccessAddresses : deactivateUser(address)
    \/ \E address \in AccessAddresses, resource \in Resources,
          action \in ResourceActions : hasPermission(address, resource, action)

SpecAccess == Init /\ [][NextAccess]_vars

NextRecovery ==
    \/ \E lostAccount \in RecoveryAccounts, newOwner \in NewOwners,
          guardian \in GuardianInputs :
          initiateRecovery(lostAccount, newOwner, guardian)
    \/ \E requestId \in RequestIds, guardian \in GuardianInputs :
          approveRecovery(requestId, guardian)
    \/ \E requestId \in RequestIds, currentOwner \in RecoveryAccounts :
          executeRecovery(requestId, currentOwner)
    \/ \E address \in RecoveryAccounts : isAccountLocked(address)
    \/ RecoveryTick

SpecRecovery == Init /\ [][NextRecovery]_vars

(***************************************************************************)
(* Vocabulary of the claims.                                               *)
(***************************************************************************)
\* The signer set the relay is deployed with.  RelayerConfig has no field for
\* it and the code never consults it.
ConfiguredSigners == {"A", "B"}

\* Distinct configured signers among a set of signers.
ValidSigners(signers) == signers \cap ConfiguredSigners

(***************************************************************************)
(* C1: for every transferId, the destination adapter call made by          *)
(* relayMessage succeeds at most once.                                     *)
(***************************************************************************)
AtMostOneSuccessfulRelay == \A t \in TransferIds : relayed[t] <= 1

(***************************************************************************)
(* C2: relayMessage is never invoked for a transferId before at least      *)
(* requiredSignatures confirmations have been recorded for it.             *)
(***************************************************************************)
RelayOnlyAfterQuorum == invoked \subseteq quorumSeen

(***************************************************************************)
(* C3: monitorConfirmations calls processConfirmedTransfer for a transfer  *)
(* only if the number of distinct valid signers that confirmed it is at    *)
(* least requiredSignatures.                                               *)
(***************************************************************************)
ConfirmedOnlyWithDistinctQuorum ==
    processed # NoCall =>
        Cardinality(ValidSigners(processed.signers)) >= requiredSignatures

(***************************************************************************)
(* C4: a confirmation added by a signer that already confirmed the         *)
(* transferId leaves getConfirmationCount(transferId) unchanged.           *)
(***************************************************************************)
DuplicateSignerNotCounted ==
    [][\A c \in Confirmations :
          (/\ addConfirmation(c)
           /\ SignersOf(<<c>>) \subseteq
                  SignersOf(ConfsOf(confirmations, c.transferId)))
          => Len(ConfsOf(confirmations', c.transferId))
                 = Len(ConfsOf(confirmations, c.transferId))]_vars

(***************************************************************************)
(* C5: the confirmations stored for any transferId come only from          *)
(* configured signers.                                                     *)
(***************************************************************************)
StoredSignersAreConfigured ==
    \A j \in 1..Len(confirmations) :
        SignersOf(confirmations[j].confs) \subseteq ConfiguredSigners

(***************************************************************************)
(* C6: a verifyTransferProof call whose proof does not verify does not     *)
(* record the nullifier in spentNullifiers.                                *)
(***************************************************************************)
FailedProofKeepsNullifier ==
    [][\A p \in Proofs, n \in Nullifiers, b \in Blocks :
          (VerifyTransferProof(p, n, b) /\ ~ProofVerifies(p))
          => spentNullifiers' = spentNullifiers]_vars

(***************************************************************************)
(* C7: ShieldedPool.withdraw succeeds only with a proof that verifies.     *)
(***************************************************************************)
WithdrawRequiresValidProof ==
    (poolResult.op = "withdraw" /\ poolResult.ok) => ProofVerifies(poolResult.proof)

\* What one verifyTransferProof / withdraw step must satisfy for C8.
CoreConsumesOnce(p, n) ==
    /\ (ProofVerifies(p) /\ coreVerified[n] = 0) => coreResult'.ok
    /\ coreVerified[n] > 0 => ~coreResult'.ok
    /\ coreResult'.ok => CoreHas(spentNullifiers', n)
    /\ ~coreResult'.ok => spentNullifiers' = spentNullifiers
    /\ \A e \in spentNullifiers : CoreHas(spentNullifiers', e[1])

PoolConsumesOnce(c, p) ==
    LET n == notes[c].nullifier
    IN /\ (ProofVerifies(p) /\ poolWithdrawn[n] = 0) => poolResult'.ok
       /\ poolWithdrawn[n] > 0 => ~poolResult'.ok
       /\ poolResult'.ok => n \in nullifierSet'
       /\ ~poolResult'.ok => nullifierSet' = nullifierSet
       /\ nullifierSet \subseteq nullifierSet'

(***************************************************************************)
(* C8: consuming a nullifier n succeeds exactly once: the first attempt    *)
(* with a valid proof succeeds and records n, every later attempt with n   *)
(* fails, a failing attempt leaves the nullifier set unchanged, and a      *)
(* recorded nullifier stays recorded.                                      *)
(***************************************************************************)
NullifierConsumedExactlyOnce ==
    [][/\ \A p \in Proofs, n \in Nullifiers, b \in Blocks :
             VerifyTransferProof(p, n, b) => CoreConsumesOnce(p, n)
       /\ \A c \in DOMAIN notes, p \in Proofs :
             Withdraw(c, p) => PoolConsumesOnce(c, p)]_vars

(***************************************************************************)
(* C9: the spent check and the insert of a nullifier are not split across  *)
(* a suspension point, so of any number of withdrawals / verifications of  *)
(* the same nullifier, however interleaved, at most one succeeds.          *)
(***************************************************************************)
AtMostOneSuccessPerNullifier ==
    \A n \in Nullifiers : poolWithdrawn[n] <= 1 /\ coreVerified[n] <= 1

\* Two notes share a nullifier; one was withdrawn and the withdrawal of the
\* other was refused by the nullifier check.
SecondWithdrawalRefused ==
    /\ poolResult.op = "withdraw"
    /\ ~poolResult.ok
    /\ poolResult.error = "Double spend attempt"
    /\ poolWithdrawn[notes[poolResult.commitment].nullifier] = 1

\* The outcomes of the insert calls so far, and a refused insert as a step.
InsertOutcomes ==
    /\ \A k \in 1..Len(insertLog) :
          IF k <= Pow2(depth)
          THEN /\ insertLog[k].status \in {"inserting", "ok"}
               /\ insertLog[k].index = k - 1
          ELSE insertLog[k].status = "Merkle tree is full"
    /\ Len(leaves) = Min(Len(insertLog), Pow2(depth))

FullInsertChangesNothing ==
    \A leaf \in TreeLeaves :
        (Insert(leaf) /\ Len(insertLog) >= Pow2(depth))
        => /\ leaves' = leaves
           /\ nodes' = nodes
           /\ GetRoot' = GetRoot

RootIsFunctionOfLeaves ==
    inserting = << >> => GetRoot = SerialRoot(depth, leaves)

\* Vocabulary of C12: folding a leaf with the siblings of a proof.  The bit
\* of a level says on which side the running hash goes; both readings of
\* the bit are tried (leftWhenZero: bit 0 puts the running hash on the left).
RECURSIVE Fold(_, _, _, _, _)
Fold(h, pathElements, pathIndices, l, leftWhenZero) ==
    IF l > Len(pathElements) THEN h
    ELSE Fold(IF (pathIndices[l] = 0) = leftWhenZero
              THEN MiMC7Hash(h, pathElements[l])
              ELSE MiMC7Hash(pathElements[l], h),
              pathElements, pathIndices, l + 1, leftWhenZero)

ProofFolds(proof) ==
    \E leftWhenZero \in BOOLEAN :
        Fold(proof.leaf, proof.pathElements, proof.pathIndices, 1, leftWhenZero)
            = proof.root

(***************************************************************************)
(* C12: once no insert is in progress, getProof(i) of every inserted leaf  *)
(* index i returns depth siblings and depth path bits, folding the leaf    *)
(* with the siblings yields the root of the proof, and that root is        *)
(* getRoot().                                                              *)
(***************************************************************************)
MembershipProofsValid ==
    inserting = << >> =>
        \A i \in 0..(Len(leaves) - 1) :
            LET proof == GetProof(i)
            IN /\ proof.status = "ok"
               /\ Len(proof.pathElements) = depth
               /\ Len(proof.pathIndices) = depth
               /\ proof.root = GetRoot
               /\ ProofFolds(proof)

\* What a publishMessage step must leave behind for C13.
PublishRoundTrips ==
    \A m \in BusMessages :
        publishMessage(m) =>
            /\ BusGet(messageHashes', busResult'.hash) = m
            /\ BusVerify(messageHashes', busResult'.hash, m)

\* getMessage of a hash that publishMessage never returned gives null.
UnpublishedIsNull ==
    /\ \A h \in BusHashes \ publishedHashes : BusGet(messageHashes, h) = Null
    /\ (busResult.op = "get" /\ busResult.hash \notin publishedHashes)
           => busResult.message = Null

(***************************************************************************)
(* C13: after hash = publishMessage(m), getMessage(hash) returns m, equal  *)
(* in every field, and verifyMessage(hash, m) is true; getMessage of a     *)
(* hash that was never published returns null.                             *)
(***************************************************************************)
BusRoundTrip == [][PublishRoundTrips]_vars /\ []UnpublishedIsNull

\* The upper-case spelling of the sender was published and is what the bus
\* holds under its hash, next to another message.
PublishedAndReadBack ==
    /\ busResult.op = "publish"
    /\ busResult.message.sender = "0xAB"
    /\ BusGet(messageHashes, busResult.hash) = busResult.message
    /\ Cardinality(publishedHashes) >= 2

(***************************************************************************)
(* C14: verifyMessage(hash, m') returns true only if a message is stored   *)
(* under hash and m' agrees with it in all nine digest fields.             *)
(***************************************************************************)
VerifyDetectsMismatch ==
    (busResult.op = "verify" /\ busResult.ok) =>
        /\ busResult.hash \in publishedHashes
        /\ MessageHash(busResult.message) = busResult.hash

(***************************************************************************)
(* C15: submitting a message whose transferId is already in the queue      *)
(* leaves the queue unchanged.                                             *)
(***************************************************************************)
SubmitIdempotentWhilePending ==
    [][\A message \in Messages :
          (/\ submitCrossChainMessage(message)
           /\ \E j \in 1..Len(messageQueue) :
                  messageQueue[j].transferId = message.transferId)
          => messageQueue' = messageQueue]_vars

(***************************************************************************)
(* C16: a transfer whose dispatch has never succeeded has had at most      *)
(* maxAttempts calls of relayMessage.                                      *)
(***************************************************************************)
RetriesBounded ==
    \A t \in TransferIds : relayed[t] = 0 => attempts[t] <= maxAttempts

\* A message of transfer t is in the queue or in the hands of a poll loop.
Held(t) ==
    \/ \E j \in 1..Len(messageQueue) : messageQueue[j].transferId = t
    \/ \E p \in 1..MaxLoops : pollers[p].msg.transferId = t

(***************************************************************************)
(* C19: a submitted transfer that has not been relayed successfully is     *)
(* still in the message queue or in flight, and a transfer that reached    *)
(* the confirmation threshold and has not been relayed successfully still  *)
(* has its confirmations stored.                                           *)
(***************************************************************************)
FailedTransferRetained ==
    \A t \in TransferIds :
        relayed[t] = 0 =>
            /\ submitted[t] > 0 => Held(t)
            /\ t \in quorumSeen => HasQuorum(ConfsOf(confirmations, t))

\* Both paths have dispatched the transfer more than once without success,
\* and the message and the confirmations are still there.
RetainedAfterFailures ==
    \E t \in TransferIds :
        /\ relayed[t] = 0
        /\ attempts[t] > maxAttempts
        /\ submitted[t] > 0
        /\ processed # NoCall
        /\ \A p \in 1..MaxLoops : pollers[p].pc = "sleep"
        /\ \A m \in 1..MaxLoops : monitors[m].pc = "sleep"

\* A transfer submitted once and never dispatched by the confirmed path is
\* relayed at most once, and once relayed is no longer queued or in flight.
RelayedOnceAndGone ==
    \A t \in TransferIds :
        (submitted[t] = 1 /\ processed = NoCall) =>
            /\ relayed[t] <= 1
            /\ relayed[t] = 1 => ~Held(t)

ShutdownTerminates == <>[](~isRunning) => <>[]LoopsTerminated

(***************************************************************************)
(* C20: for every transferId, CrossChainBridge pays out at most once       *)
(* (completeCrossChainTransfer), and PolygonBridge pays out at most once   *)
(* (completeCrossChainTransfer, fastConfirmTransfer and cancelTransfer     *)
(* together).                                                              *)
(***************************************************************************)
BridgePaysOncePerTransfer ==
    \A c \in Contracts : \A i \in BridgeIds(c) : bridgePaid[c][i] <= 1

(***************************************************************************)
(* C21: CrossChainBridge.initiateCrossChainTransfer reverts, recording no  *)
(* transfer and moving no tokens, whenever the bridge is paused, the token *)
(* is not whitelisted, the destination chain is not supported, the amount  *)
(* is below minTransferAmount or above maxTransferAmount, or the recipient *)
(* is the zero address; otherwise it records the transfer with status      *)
(* Initiated.                                                              *)
(***************************************************************************)
InitiateMustRevert(c, recipient, amount, destinationChainId, token) ==
    \/ bridgePaused[c]
    \/ token \notin whitelistedTokens
    \/ destinationChainId \notin supportedChains(c)
    \/ amount < minTransferAmount
    \/ amount > maxTransferAmount
    \/ recipient = AddressZero

CtStep ==
    \/ \E proof \in CtProofs, commitment \in CtCommitments,
          nullifier \in CtNullifiers :
          verifyConfidentialTransfer(proof, commitment, nullifier)
    \/ verifyConfidentialTransferResume

DoubleSpendRefused ==
    [][CtStep =>
        /\ ctSpentNullifiers' = ctSpentNullifiers
        /\ ctResult' # ctResult =>
              /\ ctResult'.wasSpent =>
                    /\ ~ctResult'.valid
                    /\ ctResult'.reason = "Double spend detected"
              /\ ctResult'.valid =>
                    /\ ~ctResult'.wasSpent
                    /\ ctResult'.proof.pi_a > 0
                    /\ ctResult'.proof.pi_b > 0
                    /\ ctResult'.proof.pi_c > 0]_vars

\* A call with a proof that verifies was refused as a double spend.
DoubleSpendDetected ==
    /\ ctResult # NoCall
    /\ ctResult.wasSpent
    /\ ~ctResult.valid
    /\ ctResult.reason = "Double spend detected"
    /\ zkVerifyTransferProof(ctResult.proof)
    /\ ctResult.nullifier \in ctSpentNullifiers

(***************************************************************************)
(* C23: MultiSigVault.executeTransaction runs executeFn for a txHash only  *)
(* if at least threshold distinct addresses of the configured signer list  *)
(* have a signature stored for that txHash (the list the call read), and   *)
(* the stored signatures of a txHash are always by distinct configured     *)
(* signers: addSignature rejects a signer outside the list and a second    *)
(* signature by the same signer.                                           *)
(***************************************************************************)
VaultSigners == {VaultConfig.signers[i] : i \in 1..Len(VaultConfig.signers)}

\* The distinct configured addresses with a signature in sigs.
SignedBy(sigs) == {sigs[i].signer : i \in 1..Len(sigs)} \cap VaultSigners

\* The step starts executeFn for txHash, on behalf of a call that read sigs.
ExecuteFnStarted(txHash, sigs) ==
    \/ /\ ~vaultVerifies
       /\ sigs = signatures[txHash]
       /\ executeTransaction(txHash, "executor")
       /\ Len(vaultPending') > Len(vaultPending)
    \/ \E i \in 1..Len(vaultPending) :
          /\ vaultPending[i].txHash = txHash
          /\ vaultPending[i].sigs = sigs
          /\ vaultPending[i].validSignatures
          /\ executeTransactionVerified(i)

StoredByDistinctSigners(sigs) ==
    /\ \A i \in 1..Len(sigs) : sigs[i].signer \in VaultSigners
    /\ \A i, j \in 1..Len(sigs) : i # j => sigs[i].signer # sigs[j].signer

VaultSignatureLists ==
    {signatures[h] : h \in TxHashes}
        \cup {vaultPending[i].sigs : i \in 1..Len(vaultPending)}

AuditEntriesRetained ==
    /\ \A i \in 1..Len(auditIssued) :
          \E j \in 1..Len(logs) : logs[j] = auditIssued[i]
    /\ \A i, k \in 1..Len(auditIssued) :
          \A j, m \in 1..Len(logs) :
              (i < k /\ logs[j] = auditIssued[i] /\ logs[m] = auditIssued[k])
                  => j < m

(***************************************************************************)
(* C25: with the default rule set, the HIGH_VALUE_UNVERIFIED rule denies a *)
(* transfer exactly when its amount is greater than the rule's threshold:  *)
(* evaluateTransfer does not deny a transfer whose amount is below the     *)
(* threshold on account of this rule.                                      *)
(***************************************************************************)
HighValueDeniesOnlyAboveThreshold ==
    (/\ monitorResult # NoCall
     /\ monitorResult.op = "evaluateTransfer"
     /\ monitorResult.rules = DefaultRuleIds)
        => ((/\ ~monitorResult.allowed
             /\ monitorResult.reason =
                   "High value transfers require eIDAS compliance")
                <=> monitorResult.amount > HighValueThreshold)

(***************************************************************************)
(* C26: if every recordTransaction(address, amount) is preceded by a       *)
(* checkLimit(address, amount) that returned allowed, the volume recorded  *)
(* for that address within the current hour never exceeds                  *)
(* maxVolumePerHour.                                                       *)
(***************************************************************************)
HourlyVolumeWithinLimit ==
    \A a \in LimiterAddresses :
        records[a] # NoRecord => records[a].volume <= RateConfig.maxVolumePerHour

\* Vocabulary of C27: the node at (level, k) of the reference fixed-depth
\* Merkle tree over a leaf sequence.  A position with no leaf below it holds
\* the zero value; the even-index child is on the left.
RECURSIVE ReferenceNode(_, _, _)
ReferenceNode(seq, level, k) ==
    IF k * Pow2(level) >= Len(seq) THEN zeroValue
    ELSE IF level = 0 THEN seq[k + 1]
    ELSE MiMC7Hash(ReferenceNode(seq, level - 1, 2 * k),
                   ReferenceNode(seq, level - 1, 2 * k + 1))

Exists(levelNodes, i) == i \in DOMAIN levelNodes /\ levelNodes[i] # Hole

(***************************************************************************)
(* C27: after every insert the level arrays form a consistent Merkle tree: *)
(* for every level l < depth and every index k that has an existing child, *)
(* nodes[l+1][k] = combine(nodes[l][2k], nodes[l][2k+1]), the zero value   *)
(* standing for a missing child and the even-index child on the left; and  *)
(* getRoot() is the root of the reference tree over the leaf sequence.     *)
(***************************************************************************)
LevelsFormMerkleTree ==
    inserting = << >> =>
        /\ \A l \in 0..(depth - 1) : \A k \in 0..(Pow2(depth - l - 1) - 1) :
              (Exists(nodes[l], 2 * k) \/ Exists(nodes[l], 2 * k + 1))
                  => nodes[l + 1][k] = MiMC7Hash(OrZero(nodes[l], 2 * k),
                                                 OrZero(nodes[l], 2 * k + 1))
        /\ GetRoot = ReferenceNode(leaves, depth, 0)

\* Vocabulary of C28: the insert calls that passed the capacity check among
\* the first n calls, and the step of one such call.
AcceptedAmong(n) == Cardinality({j \in 1..n : insertLog[j].index # -1})

InsertAccepted(leaf) ==
    /\ Insert(leaf)
    /\ insertLog'[Len(insertLog')].index # -1

IndexesCountEarlierInserts ==
    \A i \in DOMAIN insertLog :
        insertLog[i].index # -1 => insertLog[i].index = AcceptedAmong(i - 1)

StoredUnderTransferId ==
    /\ \A hash \in DOMAIN messageHashes :
          /\ hash = MessageHash(messageHashes[hash])
          /\ hash = TransferIdKey(messageHashes[hash].transferId)
    /\ busResult.op = "get" =>
          \A hash \in DOMAIN messageHashes :
              busResult.hash = TransferIdKey(messageHashes[hash].transferId)
                  => busResult.message.transferId = messageHashes[hash].transferId

\* Vocabulary of C30: the live queue holds a message of transfer t.
Queued(q, t) == \E j \in 1..Len(q) : q[j].transferId = t

(***************************************************************************)
(* C30: once a transfer has been relayed successfully, no message with its *)
(* transferId remains in the live message queue (getQueueLength no longer  *)
(* counts it), whichever of the two loops performed the relay: the step in *)
(* which an adapter call for the transfer succeeds leaves no message of    *)
(* that transfer in messageQueue.                                          *)
(***************************************************************************)
RelayedLeavesQueue ==
    [][ \A t \in TransferIds :
          relayed'[t] > relayed[t] => ~Queued(messageQueue', t) ]_vars

\* Vocabulary of C31: the messages relayMessage has been called with and
\* whose adapter call is under way, and the messages of a transfer that the
\* service still holds as submitted (queued, or shifted by the queue loop).
Dispatched ==
    {pollers[p].msg : p \in {q \in 1..MaxLoops : pollers[q].pc = "relaying"}}
    \cup {monitors[m].msg : m \in {q \in 1..MaxLoops : monitors[q].pc = "relaying"}}

SubmittedCopies(t) ==
    {messageQueue[j] : j \in {k \in 1..Len(messageQueue) :
                                  messageQueue[k].transferId = t}}
    \cup {pollers[p].msg : p \in {q \in 1..MaxLoops :
                                     /\ pollers[q].pc = "relaying"
                                     /\ pollers[q].msg.transferId = t}}

SameTransfer(a, b) ==
    /\ a.recipient = b.recipient
    /\ a.amount = b.amount
    /\ a.token = b.token
    /\ a.destinationChainId = b.destinationChainId

(***************************************************************************)
(* C31: the message dispatched for a transferId carries the recipient, the *)
(* amount, the token and the destination chain of the message that was     *)
(* submitted under that transferId, on both dispatch paths.  Stated where   *)
(* the submitted message is known from the state: one message has been     *)
(* submitted under the transferId and the service still holds it.          *)
(***************************************************************************)
DispatchCarriesSubmittedFields ==
    \A d \in Dispatched :
        submitted[d.transferId] = 1 =>
            \A m \in SubmittedCopies(d.transferId) : SameTransfer(d, m)

(***************************************************************************)
(* C32: every call of processMessageQueue terminates, also when            *)
(* relayMessage fails for a queued message on every attempt: a poll loop   *)
(* that is inside processMessageQueue eventually reaches its sleep.        *)
(***************************************************************************)
ProcessMessageQueueTerminates ==
    \A p \in 1..MaxLoops :
        (pollers[p].pc \in {"process", "relaying"}) ~> (pollers[p].pc = "sleep")

\* Vocabulary of C33: the loops that have been started and have not returned.
ActivePollers == {p \in 1..MaxLoops : pollers[p].pc # "idle"}
ActiveMonitors == {m \in 1..MaxLoops : monitors[m].pc # "idle"}

(***************************************************************************)
(* C33: for every sequence of start() and stop() calls, at most one        *)
(* pollMessages loop and at most one monitorConfirmations loop are active  *)
(* at any time.                                                            *)
(***************************************************************************)
AtMostOneLoopEach ==
    /\ Cardinality(ActivePollers) <= 1
    /\ Cardinality(ActiveMonitors) <= 1

\* Vocabulary of C34: the runs of executeFn for a txHash that are under way,
\* and the run that completed (the txHash is marked executed).
RunsUnderWay(txHash) ==
    Cardinality({i \in 1..Len(vaultPending) :
                    /\ vaultPending[i].txHash = txHash
                    /\ vaultPending[i].at = "executeFn"})

RunsCompleted(txHash) == IF txHash \in executedTransactions THEN 1 ELSE 0

(***************************************************************************)
(* C34: for every txHash, MultiSigVault runs executeFn at most once, also  *)
(* when several executeTransaction calls for the same txHash overlap: the  *)
(* runs of executeFn under way and the completed run are never more than   *)
(* one together (a run that was rejected may be tried again).              *)
(***************************************************************************)
ExecuteFnRunsOnce ==
    \A txHash \in TxHashes : RunsUnderWay(txHash) + RunsCompleted(txHash) <= 1

(***************************************************************************)
(* C35: no timelock schedule is ever both canceled and released, in any    *)
(* order or interleaving of cancelSchedule and executeSchedule.            *)
(***************************************************************************)
NeverCanceledAndReleased ==
    \A scheduleId \in ScheduleIds :
        schedules[scheduleId] # NoSchedule =>
            ~(schedules[scheduleId].canceled /\ schedules[scheduleId].released)

\* Vocabulary of C36: a role holds a permission for (resource, action).
RoleGrants(roleName, resource, action) ==
    RolesPermit(<<roleName>>, resource, action)

(***************************************************************************)
(* C36: after grantRole(address, role), hasPermission(address, resource,   *)
(* action) is true for every permission of that role, whatever the earlier *)
(* history of the address, including when all of its roles had been        *)
(* revoked before the grant.                                               *)
(***************************************************************************)
GrantGivesPermissions ==
    [][\A address \in AccessAddresses, roleName \in RoleNames :
          grantRole(address, roleName) =>
              \A resource \in Resources, action \in ResourceActions :
                  RoleGrants(roleName, resource, action) =>
                      HasPermission(userRoles', address, resource, action)]_vars

(***************************************************************************)
(* C37: the account locked by initiateRecovery(lostAccount, newOwner,      *)
(* guardian) is unlocked by the successful execution of that request:      *)
(* after executeRecovery succeeds for the request, isAccountLocked of its  *)
(* lost account is false, and no other locked account is unlocked.         *)
(***************************************************************************)
RecoveryUnlocksItsAccount ==
    [][\A requestId \in RequestIds, currentOwner \in RecoveryAccounts :
          (executeRecovery(requestId, currentOwner) /\ recoveryResult'.ok) =>
              /\ ~IsAccountLocked(lockedAccounts', requestId[1])
              /\ \A address \in RecoveryAccounts \ {requestId[1]} :
                    IsAccountLocked(lockedAccounts, address)
                        => IsAccountLocked(lockedAccounts', address)]_vars

(***************************************************************************)
(* C38: every unspent note of the ShieldedPool can be withdrawn: in every  *)
(* reachable state a note with spent = false has a nullifier that is not   *)
(* in the nullifier set.                                                   *)
(***************************************************************************)
UnspentNotesWithdrawable ==
    \A commitment \in DOMAIN notes :
        ~notes[commitment].spent =>
            notes[commitment].nullifier \notin nullifierSet

(***************************************************************************)
(* C39: the amount paid out by completeCrossChainTransfer for a transferId *)
(* equals the net amount recorded for that transfer at initiation (the     *)
(* deposited amount minus the fee).                                        *)
(***************************************************************************)
CompletePaysRecordedAmount ==
    (bridgeResult # NoCall /\ bridgeResult.op = "complete" /\ bridgeResult.ok) =>
        bridgeResult.amount =
            bridgeTransfers[bridgeResult.contract][bridgeResult.transferId].amount

====
